---- MODULE Spec2Model ----
(***************************************************************************)
(* A model of the GraphQL -> Cypher compiler: the traversal driver         *)
(* (GraphQlQueryTraverse), the emitter (GraphQlQueryCompiler), the filter  *)
(* analyzer (createConditionTrees and its helpers) and the tenant extension*)
(* (TenantBasedGraphQlQueryCompiler).                                      *)
(*                                                                         *)
(* Strings.  TLA+ has no string concatenation, so a JavaScript string is   *)
(* modelled as the sequence of the pieces it is concatenated from:         *)
(* `${toCamelCase(t)}${level}` is <<"baseAgreement", "0">>, the keyword    *)
(* "MATCH" is <<"MATCH">>.  A where key is the sequence of its pieces      *)
(* between underscores: version_GTE is <<"version", "GTE">>.               *)
(***************************************************************************)
EXTENDS Integers, Sequences, FiniteSets, TLC

VARIABLES
    \* GraphQlQueryCompiler fields
    fieldPath, fieldNodePath, typePath, listComprehensionFlagPath,
    level, buffer, tokenBuffer,
    \* constructor arguments: the schema, the variables object and the
    \* compiler class
    schema, variables, tenant,
    \* GraphQlQueryTraverse: info (fieldName, operation, fragments) and the
    \* pending steps of the recursive walk (the call stack of walk)
    info, agenda,
    \* the local searchConditionTrees of the last matching expression built
    searchConditionTrees,
    \* what compile() returned (a sequence of strings joined by " "),
    \* how often it ran, and the error a callback threw
    output, compiled, error,
    \* the callbacks the traversal has made on the visitor, in their order
    calls,
    \* a second compiler with its traversal, created by another call of the
    \* resolver on the same schema: the fields above of that instance, while
    \* the callbacks of this one run
    peer

vars == <<fieldPath, fieldNodePath, typePath, listComprehensionFlagPath,
          level, buffer, tokenBuffer, schema, variables, tenant, info, agenda,
          searchConditionTrees, output, compiled, error, calls, peer>>

-----------------------------------------------------------------------------
(* Generic helpers                                                          *)

\* Array.prototype.flat / flatMap on an array of arrays (the recursion halves
\* the array, so that its depth stays small)
RECURSIVE Flat(_)
Flat(ss) ==
    IF Len(ss) = 0 THEN <<>>
    ELSE IF Len(ss) = 1 THEN ss[1]
    ELSE LET mid == Len(ss) \div 2
         IN  Flat(SubSeq(ss, 1, mid)) \o Flat(SubSeq(ss, mid + 1, Len(ss)))

\* Array.prototype.filter: the items s[i], i >= from, with keep[i]
SelectSeqIdx(s, keep, from) ==
    Flat([i \in 1..Len(s) |-> IF i >= from /\ keep[i] THEN <<s[i]>> ELSE <<>>])

\* lodash last
Last(s) == s[Len(s)]

\* Array.prototype.pop (the array that is left)
Pop(s) == SubSeq(s, 1, Len(s) - 1)

\* one JavaScript string made of one piece
S(x) == <<x>>

-----------------------------------------------------------------------------
(* The schema the compiler is constructed with, and its directive index.    *)
(* A field is its unwrapped type name, whether its nullable type is a list, *)
(* and the directives of its definition.                                    *)

Rel(t, d) == <<[name |-> "relationship", type |-> t, direction |-> d, statement |-> ""]>>
Cypher(stmt) == <<[name |-> "cypher", type |-> "", direction |-> "", statement |-> stmt]>>
NoDirectives == <<>>

F(t, l, d) == [type |-> t, isList |-> l, directives |-> d]

Schema ==
    [ Query |->
        [ baseAgreements |-> F("BaseAgreement", TRUE, NoDirectives),
          organizations  |-> F("Organization", TRUE, NoDirectives),
          users          |-> F("User", TRUE, NoDirectives),
          flexEntities   |-> F("FlexEntity", TRUE, NoDirectives),
          myOrganization |-> F("Organization", FALSE, Cypher("stmtMyOrganization")) ],
      BaseAgreement |->
        [ id      |-> F("ID", FALSE, NoDirectives),
          name    |-> F("String", FALSE, NoDirectives),
          status  |-> F("AgreementStatus", FALSE, NoDirectives),
          version |-> F("Int", FALSE, NoDirectives),
          validFrom |-> F("Date", FALSE, NoDirectives),
          counterparties |-> F("Organization", TRUE, Rel("HAS_PARTNER", "OUT")),
          counterpartiesConnection |->
              F("BaseAgreementCounterpartiesConnection", FALSE, NoDirectives),
          treatmentPrices |-> F("Treatment", TRUE, Rel("HAS_PRICED", "OUT")),
          treatmentPricesConnection |->
              F("BaseAgreementTreatmentPricesConnection", FALSE, NoDirectives),
          creator        |-> F("User", FALSE, Rel("CREATED_BY", "OUT")),
          initialVersion |-> F("BaseAgreement", FALSE, Rel("HAS_INITIAL_VERSION", "OUT")),
          partnerCount   |-> F("Int", FALSE, Cypher("stmtPartnerCount")),
          allowedForms   |-> F("String", TRUE, Cypher("stmtAllowedForms")),
          mainPartner    |-> F("Organization", FALSE, Cypher("stmtMainPartner")),
          tags           |-> F("AgreementTag", TRUE, Cypher("stmtTags")),
          settings       |-> F("Settings", FALSE, NoDirectives) ],
      BaseAgreementCounterpartiesConnection |->
        [ edges      |-> F("BaseAgreementCounterpartiesRelationship", TRUE, NoDirectives),
          totalCount |-> F("Int", FALSE, NoDirectives) ],
      BaseAgreementCounterpartiesRelationship |->
        [ role |-> F("PartnerRole", FALSE, NoDirectives),
          isApprovalRequired |-> F("Boolean", FALSE, NoDirectives),
          node |-> F("Organization", FALSE, NoDirectives) ],
      BaseAgreementTreatmentPricesConnection |->
        [ edges      |-> F("BaseAgreementTreatmentPricesRelationship", TRUE, NoDirectives),
          totalCount |-> F("Int", FALSE, NoDirectives) ],
      BaseAgreementTreatmentPricesRelationship |->
        [ price |-> F("Float", FALSE, NoDirectives),
          node  |-> F("Treatment", FALSE, NoDirectives) ],
      Organization |->
        [ id       |-> F("ID", FALSE, NoDirectives),
          name     |-> F("String", FALSE, NoDirectives),
          tenantId |-> F("String", FALSE, NoDirectives),
          members  |-> F("User", TRUE, Rel("MEMBER_OF", "IN")) ],
      User |->
        [ id        |-> F("ID", FALSE, NoDirectives),
          name      |-> F("String", FALSE, NoDirectives),
          tenantIds |-> F("String", TRUE, NoDirectives),
          memberOf  |-> F("Organization", TRUE, Rel("MEMBER_OF", "OUT")) ],
      FlexEntity |->
        [ id       |-> F("ID", FALSE, NoDirectives),
          tenantId |-> F("String", FALSE, NoDirectives) ],
      Treatment |->
        [ Code |-> F("String", FALSE, NoDirectives),
          Name |-> F("String", FALSE, NoDirectives),
          regulatedBy     |-> F("Preparation", FALSE, Rel("REGULATES", "IN")),
          exFactoryPrices |-> F("ExFactoryPrice", TRUE, Rel("HAS", "OUT")),
          priceCount      |-> F("Int", FALSE, Cypher("stmtPriceCount")),
          currentPrice    |-> F("ExFactoryPrice", FALSE, Cypher("stmtCurrentPrice")) ],
      Preparation |->
        [ id            |-> F("ID", FALSE, NoDirectives),
          DescriptionDe |-> F("String", FALSE, NoDirectives),
          generic       |-> F("Generic", FALSE, Rel("BASED_ON", "OUT")) ],
      Generic |-> [ Name |-> F("String", FALSE, NoDirectives) ],
      ExFactoryPrice |->
        [ Price         |-> F("Float", FALSE, NoDirectives),
          ValidFromDate |-> F("String", FALSE, NoDirectives) ],
      AgreementTag |-> [ name |-> F("String", FALSE, NoDirectives) ],
      Settings |-> [ theme |-> F("String", FALSE, NoDirectives) ] ]

\* isObjectType; every other type name is a scalar or an enum
isObjectType(t) == t \in DOMAIN schema
HasField(t, f) == isObjectType(t) /\ f \in DOMAIN schema[t]

\* /Connection$/ on the names of this schema, and the name without the suffix
ConnectionBase ==
    [ counterpartiesConnection  |-> "counterparties",
      treatmentPricesConnection |-> "treatmentPrices",
      BaseAgreementCounterpartiesConnection  |-> "BaseAgreementCounterparties",
      BaseAgreementTreatmentPricesConnection |-> "BaseAgreementTreatmentPrices" ]
ConnectionSuffixRegex(s) == s \in DOMAIN ConnectionBase
ReplaceConnectionSuffix(s) == IF ConnectionSuffixRegex(s) THEN ConnectionBase[s] ELSE s

\* /Relationship$/ on the names of this schema
RelationshipSuffixRegex(s) ==
    s \in {"BaseAgreementCounterpartiesRelationship",
           "BaseAgreementTreatmentPricesRelationship"}

\* toCamelCase: the first character in lower case
toCamelCase(s) ==
    CASE s = "Query" -> "query"
      [] s = "BaseAgreement" -> "baseAgreement"
      [] s = "BaseAgreementCounterpartiesConnection" -> "baseAgreementCounterpartiesConnection"
      [] s = "BaseAgreementCounterpartiesRelationship" -> "baseAgreementCounterpartiesRelationship"
      [] s = "BaseAgreementTreatmentPricesConnection" -> "baseAgreementTreatmentPricesConnection"
      [] s = "BaseAgreementTreatmentPricesRelationship" -> "baseAgreementTreatmentPricesRelationship"
      [] s = "Organization" -> "organization"
      [] s = "User" -> "user"
      [] s = "FlexEntity" -> "flexEntity"
      [] s = "Treatment" -> "treatment"
      [] s = "Preparation" -> "preparation"
      [] s = "Generic" -> "generic"
      [] s = "ExFactoryPrice" -> "exFactoryPrice"
      [] s = "AgreementTag" -> "agreementTag"
      [] s = "Settings" -> "settings"
      [] OTHER -> s

\* typeFieldsToDirectivesMap[`${type}.${field}`]?.find(d => d.name.value === name):
\* the directive as a one-element sequence, or the empty sequence (undefined)
FindDirective(t, f, name) ==
    IF HasField(t, f)
    THEN LET ds == schema[t][f].directives
         IN  SelectSeqIdx(ds, [i \in 1..Len(ds) |-> ds[i].name = name], 1)
    ELSE <<>>

\* getTargetIfConnectionType
getTargetIfConnectionType(t) ==
    IF ConnectionSuffixRegex(t)
    THEN schema[schema[t]["edges"].type]["node"].type
    ELSE t

-----------------------------------------------------------------------------
(* Values.                                                                  *)
(* An AST value node is [kind, ...] as in graphql-js; the value of an       *)
(* IntValue, FloatValue, BooleanValue, StringValue or EnumValue is the text *)
(* of the literal.  A runtime (variable) value is [t, ...]: t is the        *)
(* JavaScript type, an object is the sequence of its entries in             *)
(* Object.entries order, a number or boolean is kept as its String(...).    *)
(* The value of a Condition is undefined, null, one string (scalar) or an   *)
(* array of strings.                                                        *)

ObjectValue(fs) == [kind |-> "ObjectValue", fields |-> fs]
ObjectField(k, v) == [name |-> k, value |-> v]
ListValue(vs) == [kind |-> "ListValue", values |-> vs]
Variable(n) == [kind |-> "Variable", name |-> n]
StringValue(v) == [kind |-> "StringValue", value |-> v]
EnumValue(v) == [kind |-> "EnumValue", value |-> v]
IntValue(v) == [kind |-> "IntValue", value |-> v]
BooleanValue(v) == [kind |-> "BooleanValue", value |-> v]
NullValue == [kind |-> "NullValue"]
Argument(n, v) == [name |-> n, value |-> v]

JsObject(es) == [t |-> "object", entries |-> es]
JsEntry(k, v) == [name |-> k, value |-> v]
JsArray(is) == [t |-> "array", items |-> is]
JsString(v) == [t |-> "string", v |-> v]
JsNumber(v) == [t |-> "number", v |-> v]
JsBoolean(v) == [t |-> "boolean", v |-> v]
JsNull == [t |-> "null"]
JsUndefined == [t |-> "undefined"]

ValUndefined == [kind |-> "undefined", items |-> <<>>]
ValNull == [kind |-> "null", items |-> <<>>]
ValScalar(str) == [kind |-> "scalar", items |-> <<str>>]
ValArray(strs) == [kind |-> "array", items |-> strs]

\* `'${v}'`
Quoted(v) == <<"'", v, "'">>

\* !value for a runtime value
JsFalsy(v) ==
    \/ v.t \in {"undefined", "null"}
    \/ v.t = "string" /\ v.v = ""
    \/ v.t = "number" /\ v.v = "0"
    \/ v.t = "boolean" /\ v.v = "false"

\* isEmptyValue of shared/is-empty-value: undefined, null and the empty string
isEmptyValue(val) ==
    \/ val.kind \in {"undefined", "null"}
    \/ val.kind = "scalar" /\ val.items[1] = <<>>

\* insertBetweenArrayItems: drops the empty items and the empty arrays, then
\* puts the insertion between the items that are left
Intersperse(items, insertion) ==
    IF Len(items) <= 1 THEN items
    ELSE [i \in 1..(2 * Len(items) - 1) |->
            IF i % 2 = 1 THEN items[(i + 1) \div 2] ELSE insertion]

insertBetweenArrayItems(items, insertion) ==
    Intersperse(SelectSeqIdx(items, [i \in 1..Len(items) |-> items[i] # <<>>], 1),
                insertion)

\* insertBetweenArrayItems on the items of a list value: each item is a
\* Condition value; the array keeps the strings of the items that are not empty
ListItems(vals) ==
    LET kept == SelectSeqIdx(vals,
                    [i \in 1..Len(vals) |->
                        ~isEmptyValue(vals[i])
                        /\ (vals[i].kind = "array" => vals[i].items # <<>>)], 1)
    IN  <<S("[")>>
        \o Flat(Intersperse([i \in 1..Len(kept) |-> kept[i].items], <<S(",")>>))
        \o <<S("]")>>

\* readValue
RECURSIVE readValue(_, _)
readValue(fieldType, value) ==
    IF value.kind \in {"BooleanValue", "FloatValue", "IntValue"}
    THEN ValScalar(S(value.value))
    ELSE IF value.kind \in {"StringValue", "EnumValue"}
    THEN ValScalar(Quoted(value.value))
    ELSE IF isObjectType(fieldType)
    THEN ValNull
    ELSE IF value.kind = "ListValue"
    THEN ValArray(ListItems([i \in 1..Len(value.values) |->
                                readValue(fieldType, value.values[i])]))
    ELSE IF value.kind = "Variable"
    THEN ValScalar(<<"$", value.name>>)
    ELSE ValNull

\* obj[name]; the keys of an object are kept as their pieces between
\* underscores
GetProperty(obj, name) ==
    IF obj.t = "object" /\ \E i \in 1..Len(obj.entries) : obj.entries[i].name = <<name>>
    THEN obj.entries[CHOOSE i \in 1..Len(obj.entries) :
                        /\ obj.entries[i].name = <<name>>
                        /\ \A j \in (i + 1)..Len(obj.entries) : obj.entries[j].name # name].value
    ELSE JsUndefined

\* value.year && typeof value.month === "number"
DateShaped(value) ==
    /\ value.t = "object"
    /\ ~JsFalsy(GetProperty(value, "year"))
    /\ GetProperty(value, "month").t = "number"

\* format(new Date(year, month - 1, day), "yyyy-MM-dd") for a calendar date
\* of a four-digit year: month and day are padded to two digits.  Without a
\* numeric day the Date is invalid and format throws a RangeError.
Pad2(n) == IF n \in {"0", "1", "2", "3", "4", "5", "6", "7", "8", "9"} THEN <<"0", n>> ELSE <<n>>
FormatDate(value) ==
    <<GetProperty(value, "year").v, "-">> \o Pad2(GetProperty(value, "month").v)
    \o <<"-">> \o Pad2(GetProperty(value, "day").v)
InvalidDate(value) == DateShaped(value) /\ GetProperty(value, "day").t # "number"

\* mapConditionValue
mapConditionValueItem(item) ==
    IF item.t = "string" THEN ValScalar(Quoted(item.v))
    ELSE IF item.t \in {"number", "boolean"} THEN ValScalar(S(item.v))
    ELSE IF item.t = "undefined" THEN ValUndefined
    ELSE ValNull

mapConditionValue(value) ==
    IF JsFalsy(value)
    THEN CASE value.t = "undefined" -> ValUndefined
           [] value.t = "null" -> ValNull
           [] value.t = "string" -> ValScalar(<<>>)
           [] OTHER -> ValScalar(S(value.v))
    ELSE IF DateShaped(value)
    THEN ValScalar(FormatDate(value))
    ELSE IF value.t = "array"
    THEN ValArray(ListItems([i \in 1..Len(value.items) |->
                                mapConditionValueItem(value.items[i])]))
    ELSE IF value.t = "string"
    THEN ValScalar(Quoted(value.v))
    ELSE IF value.t \in {"number", "boolean"}
    THEN ValScalar(S(value.v))
    ELSE ValScalar(S("[object Object]"))

-----------------------------------------------------------------------------
(* The filter analyzer: Condition trees from a where value.                 *)
(* A Condition is the record of models/Condition; a field the code leaves   *)
(* out is "" / <<>> / FALSE.  A TypeError thrown while the tree is built is *)
(* the Condition whose error field names it.                                *)

Condition ==
    [parentType |-> "", parentPropertyName |-> "", property |-> "",
     operator |-> <<>>, isOr |-> FALSE, isGroup |-> FALSE, isRelationship |-> FALSE,
     value |-> ValUndefined, nested |-> <<>>, error |-> ""]

Thrown(msg) == <<[Condition EXCEPT !.error = msg]>>

RECURSIVE HasError(_)
HasError(trees) ==
    \E i \in 1..Len(trees) : trees[i].error # "" \/ HasError(trees[i].nested)

\* the error thrown while the trees were built: the first one met
RECURSIVE ErrorOf(_)
ErrorOf(trees) ==
    LET i == CHOOSE k \in 1..Len(trees) :
                 /\ trees[k].error # "" \/ HasError(trees[k].nested)
                 /\ \A j \in 1..(k - 1) : trees[j].error = "" /\ ~HasError(trees[j].nested)
    IN  IF trees[i].error # "" THEN trees[i].error ELSE ErrorOf(trees[i].nested)

\* this.variables[name]
VariableValue(name) ==
    IF name \in DOMAIN variables THEN variables[name] ELSE JsUndefined

\* the type under the key edge when it is taken for the node's
EdgesTypeAsNodeTarget(parentType) == getTargetIfConnectionType(parentType)

\* unwrapType(parentType.getFields()["edges"].type)
EdgesType(parentType) == schema[parentType]["edges"].type

RECURSIVE createConditionTrees(_, _, _)
RECURSIVE createConditionsByObjectFieldNode(_, _, _)
RECURSIVE createConditionTreesByObject(_, _, _)
RECURSIVE createConditionTreesByObjectField(_, _, _, _)

\* createConditionTreesByObjectField (runtime path)
createConditionTreesByObjectField(field, value, parentType, parentPropertyName) ==
    IF ConnectionSuffixRegex(parentPropertyName) /\ field = <<"node">>
    THEN createConditionTreesByObject(value, getTargetIfConnectionType(parentType),
                                      parentPropertyName)
    ELSE IF ConnectionSuffixRegex(parentPropertyName) /\ field = <<"edge">>
    THEN IF HasField(parentType, "edges")
         THEN createConditionTreesByObject(value, EdgesType(parentType), parentPropertyName)
         ELSE Thrown("TypeError")
    ELSE IF field = <<"OR">>
    THEN IF value.t = "array"
         THEN <<[Condition EXCEPT
                   !.parentType = getTargetIfConnectionType(parentType),
                   !.parentPropertyName = parentPropertyName,
                   !.isOr = TRUE,
                   !.nested = [i \in 1..Len(value.items) |->
                       [Condition EXCEPT
                          !.isGroup = TRUE,
                          !.nested = createConditionTreesByObject(
                                         value.items[i], parentType, parentPropertyName)]]]>>
         ELSE Thrown("TypeError")
    ELSE IF value.t = "array"
            /\ (value.items = <<>> \/ value.items[1].t \in {"object", "array", "null"})
    THEN Flat([i \in 1..Len(value.items) |->
                 createConditionTreesByObject(value.items[i], parentType, parentPropertyName)])
    ELSE LET property == field[1]
         IN  IF ~HasField(parentType, property)
             THEN Thrown("TypeError")
             ELSE LET fieldType == schema[parentType][property].type
                  IN  IF ~isObjectType(fieldType) /\ InvalidDate(value)
                      THEN Thrown("RangeError")
                      ELSE
                      <<[Condition EXCEPT
                           !.parentType = getTargetIfConnectionType(parentType),
                           !.property = property,
                           !.parentPropertyName = parentPropertyName,
                           !.isRelationship = RelationshipSuffixRegex(parentType),
                           !.operator = Tail(field),
                           !.value = IF isObjectType(fieldType) THEN ValNull
                                     ELSE mapConditionValue(value),
                           !.nested = IF isObjectType(fieldType)
                                      THEN createConditionTreesByObject(value, fieldType, property)
                                      ELSE <<>>]>>

\* createConditionTreesByObject (runtime path); Object.entries throws on
\* undefined and null, yields the characters of a string, nothing for a
\* number or a boolean
createConditionTreesByObject(obj, parentType, parentPropertyName) ==
    CASE obj.t = "array" ->
            Flat([i \in 1..Len(obj.items) |->
                    createConditionTreesByObject(obj.items[i], parentType, parentPropertyName)])
      [] obj.t = "object" ->
            Flat([i \in 1..Len(obj.entries) |->
                    createConditionTreesByObjectField(obj.entries[i].name, obj.entries[i].value,
                                                      parentType, parentPropertyName)])
      [] obj.t \in {"undefined", "null"} -> Thrown("TypeError")
      [] obj.t = "string" /\ obj.v # "" -> Thrown("TypeError")
      [] OTHER -> <<>>

\* createConditionsByObjectFieldNode (AST path)
createConditionsByObjectFieldNode(field, parentType, parentPropertyName) ==
    IF ConnectionSuffixRegex(parentPropertyName) /\ field.name = <<"node">>
    THEN createConditionTrees(field.value, getTargetIfConnectionType(parentType),
                              parentPropertyName)
    ELSE IF ConnectionSuffixRegex(parentPropertyName) /\ field.name = <<"edge">>
    THEN IF HasField(parentType, "edges")
         THEN createConditionTrees(field.value, EdgesType(parentType), parentPropertyName)
         ELSE Thrown("TypeError")
    ELSE IF field.name = <<"OR">>
    THEN IF field.value.kind = "ListValue"
         THEN <<[Condition EXCEPT
                   !.parentType = parentType,
                   !.parentPropertyName = parentPropertyName,
                   !.isOr = TRUE,
                   !.nested = [i \in 1..Len(field.value.values) |->
                       [Condition EXCEPT
                          !.isGroup = TRUE,
                          !.nested = createConditionTrees(
                                         field.value.values[i], parentType, parentPropertyName)]]]>>
         ELSE Thrown("TypeError")
    ELSE IF field.name = <<"AND">>
    THEN IF field.value.kind = "ListValue"
         THEN Flat([i \in 1..Len(field.value.values) |->
                      createConditionTrees(field.value.values[i], parentType, parentPropertyName)])
         ELSE createConditionTrees(field.value, parentType, parentPropertyName)
    ELSE LET property == field.name[1]
         IN  IF ~HasField(parentType, property)
             THEN Thrown("TypeError")
             ELSE LET fieldType == schema[parentType][property].type
                  IN  <<[Condition EXCEPT
                           !.parentType = getTargetIfConnectionType(parentType),
                           !.parentPropertyName = parentPropertyName,
                           !.isRelationship = RelationshipSuffixRegex(parentType),
                           !.property = property,
                           !.operator = Tail(field.name),
                           !.value = IF isObjectType(fieldType) THEN ValUndefined
                                     ELSE readValue(fieldType, field.value),
                           !.nested = IF isObjectType(fieldType)
                                      THEN createConditionTrees(field.value, fieldType, property)
                                      ELSE <<>>]>>

\* createConditionTrees (AST path; a variable goes to the runtime path)
createConditionTrees(valueNode, parentType, parentPropertyName) ==
    CASE valueNode.kind = "ObjectValue" ->
            Flat([i \in 1..Len(valueNode.fields) |->
                    createConditionsByObjectFieldNode(valueNode.fields[i], parentType,
                                                      parentPropertyName)])
      [] valueNode.kind = "ListValue" ->
            Flat([i \in 1..Len(valueNode.values) |->
                    createConditionTrees(valueNode.values[i], parentType, parentPropertyName)])
      [] valueNode.kind = "Variable" ->
            createConditionTreesByObject(VariableValue(valueNode.name), parentType,
                                         parentPropertyName)
      [] OTHER -> <<>>

\* args?.find((arg) => arg.name.value === name): a one-element sequence or <<>>
FindArgument(args, name) ==
    SelectSeqIdx(args, [i \in 1..Len(args) |-> args[i].name = name], 1)

\* GraphQlQueryCompiler.createConditionTreesByField
BaseCreateConditionTreesByField(args, fieldType, fieldName) ==
    LET whereArg == FindArgument(args, "where")
    IN  IF whereArg # <<>>
        THEN createConditionTrees(whereArg[1].value, fieldType, fieldName)
        ELSE <<>>

-----------------------------------------------------------------------------
(* The tenant extension: TenantBasedGraphQlQueryCompiler.                   *)

fieldsWithoutFilters ==
    <<"sentBy", "includedIn", "updatedBy", "proposedBy", "creator", "sentBy",
      "mappingInstances">>

Includes(seq, x) == \E i \in 1..Len(seq) : seq[i] = x

\* the guard of the early return when only the target type is looked at
TenantExemptByTargetOnly(fieldType, fieldName) ==
    /\ ~HasField(getTargetIfConnectionType(fieldType), "tenantId")
    /\ ~HasField(getTargetIfConnectionType(fieldType), "tenantIds")

\* the guard of the early return: no tenant predicate for this field
TenantExempt(fieldType, fieldName) ==
    LET targetType == getTargetIfConnectionType(fieldType)
    IN  \/ (~HasField(targetType, "tenantId") /\ ~HasField(targetType, "tenantIds"))
        \/ Includes(<<"FlexEntity">>, fieldType)
        \/ Includes(fieldsWithoutFilters, fieldName)

\* tenantCondition
TenantCondition(fieldType) ==
    IF HasField(getTargetIfConnectionType(fieldType), "tenantId")
    THEN ObjectValue(<<ObjectField(<<"tenantId">>, Variable("cypherParams.tenantId"))>>)
    ELSE ObjectValue(<<ObjectField(<<"tenantIds", "INCLUDES">>,
                                   Variable("cypherParams.tenantId"))>>)

\* nodeCondition
NodeCondition(fieldType, fieldName) ==
    IF ConnectionSuffixRegex(fieldName)
    THEN ObjectValue(<<ObjectField(<<"node">>, TenantCondition(fieldType))>>)
    ELSE TenantCondition(fieldType)

\* extendedWhereArgument with the tenant predicate as the first operand
ExtendedWhereArgumentTenantFirst(args, fieldType, fieldName) ==
    Argument("where",
        IF FindArgument(args, "where") # <<>>
        THEN ObjectValue(<<ObjectField(<<"AND">>,
                 ListValue(<<NodeCondition(fieldType, fieldName),
                             FindArgument(args, "where")[1].value>>))>>)
        ELSE NodeCondition(fieldType, fieldName))

\* extendedWhereArgument
ExtendedWhereArgument(args, fieldType, fieldName) ==
    LET whereArg == FindArgument(args, "where")
    IN  Argument("where",
            IF whereArg # <<>>
            THEN ObjectValue(<<ObjectField(<<"AND">>,
                     ListValue(<<whereArg[1].value, NodeCondition(fieldType, fieldName)>>))>>)
            ELSE NodeCondition(fieldType, fieldName))

\* newArgs when the where argument of the query is passed through as it is
TenantNewArgsKeepingWhere(args, fieldType, fieldName) ==
    IF \E i \in 1..Len(args) : args[i].name = "where"
    THEN args
    ELSE args \o <<ExtendedWhereArgument(args, fieldType, fieldName)>>

\* newArgs
TenantNewArgs(args, fieldType, fieldName) ==
    IF \E i \in 1..Len(args) : args[i].name = "where"
    THEN [i \in 1..Len(args) |->
            IF args[i].name = "where"
            THEN ExtendedWhereArgument(args, fieldType, fieldName)
            ELSE args[i]]
    ELSE args \o <<ExtendedWhereArgument(args, fieldType, fieldName)>>

\* TenantBasedGraphQlQueryCompiler.createConditionTreesByField
TenantCreateConditionTreesByField(args, fieldType, fieldName) ==
    IF TenantExempt(fieldType, fieldName)
    THEN BaseCreateConditionTreesByField(args, fieldType, fieldName)
    ELSE BaseCreateConditionTreesByField(TenantNewArgs(args, fieldType, fieldName),
                                         fieldType, fieldName)

\* this.createConditionTreesByField: the override of the compiler's class
createConditionTreesByField(args, fieldType, fieldName) ==
    IF tenant
    THEN TenantCreateConditionTreesByField(args, fieldType, fieldName)
    ELSE BaseCreateConditionTreesByField(args, fieldType, fieldName)

-----------------------------------------------------------------------------
(* WHERE synthesis and patterns.  An expression is an array of strings; a   *)
(* throw inside an expression is the string that starts with "!throw".      *)

ThrowToken(msg) == <<"!throw", msg>>
IsThrowToken(str) == Len(str) > 0 /\ str[1] = "!throw"
HasThrow(strs) == \E i \in 1..Len(strs) : IsThrowToken(strs[i])

\* `${value}` in a template string
TemplateText(val) ==
    CASE val.kind = "undefined" -> S("undefined")
      [] val.kind = "null" -> S("null")
      [] val.kind = "scalar" -> val.items[1]
      [] OTHER -> Flat(Intersperse(val.items, S(",")))

\* condition.value spread by flat() into an array of strings
ValueStrings(val) ==
    IF val.kind \in {"undefined", "null"} THEN << <<>> >> ELSE val.items

PropertyText(c) == IF c.property = "" THEN "undefined" ELSE c.property

\* createPropertyMatchingPatternPart
createPropertyMatchingPatternPart(conditionTrees, isNode) ==
    LET kept == SelectSeqIdx(conditionTrees,
                    [i \in 1..Len(conditionTrees) |->
                        /\ isNode = ~conditionTrees[i].isRelationship
                        /\ conditionTrees[i].nested = <<>>
                        /\ conditionTrees[i].value.kind # "array"
                        /\ conditionTrees[i].operator = <<>>], 1)
        items == [i \in 1..Len(kept) |->
                    <<PropertyText(kept[i]), ": ">> \o TemplateText(kept[i].value)]
    IN  IF items # <<>>
        THEN << <<"{">> \o Flat(Intersperse(items, S(", "))) \o <<"}">> >>
        ELSE <<>>

\* createRelationshipPatternPart; relationshipDirective is a one-element
\* sequence or <<>> (undefined, whose .arguments throws)
createRelationshipPatternPart(relationshipDirective, fieldName, searchTrees, levelText, omitVariables) ==
    IF relationshipDirective = <<>>
    THEN <<ThrowToken("TypeError")>>
    ELSE LET d == relationshipDirective[1]
         IN  <<IF d.direction = "OUT" THEN S("-") ELSE S("<-"), S("[")>>
             \o (IF omitVariables THEN <<>> ELSE << <<"rel_", fieldName>> \o levelText >>)
             \o << <<":", d.type>> >>
             \o createPropertyMatchingPatternPart(searchTrees, FALSE)
             \o <<S("]"), IF d.direction = "OUT" THEN S("->") ELSE S("-")>>

\* the fast form decided by the operators of the path's own Conditions only
canCreateFastByPathOnly(path) ==
    \A i \in 1..Len(path) : path[i].operator = <<>>

\* canCreateFastExistentialExpression
RECURSIVE canCreateFastExistentialExpression(_)
canCreateFastExistentialExpression(path) ==
    IF path = <<>> THEN TRUE
    ELSE LET head == Head(path)
         IN  /\ head.operator = <<>>
             /\ canCreateFastExistentialExpression(Tail(path))
             /\ \A i \in 1..Len(head.nested) :
                   LET nested == head.nested[i]
                   IN  /\ \/ nested.nested = <<>>
                          \/ /\ ~nested.isOr
                             /\ \A j \in 1..Len(nested.nested) :
                                   nested.nested[j].operator = <<>>
                       /\ nested.operator = <<>>

\* getDeepFirstSearchPaths
RECURSIVE getDeepFirstSearchPaths(_, _)
getDeepFirstSearchPaths(condition, parentConditions) ==
    LET nextParentConditions == Append(parentConditions, condition)
        ns == condition.nested
        down == SelectSeqIdx(ns, [i \in 1..Len(ns) |->
                    ~ns[i].isRelationship /\ ns[i].nested # <<>>], 1)
        nestedPaths == Flat([i \in 1..Len(down) |->
                          getDeepFirstSearchPaths(down[i], nextParentConditions)])
    IN  IF nestedPaths # <<>> THEN nestedPaths ELSE <<nextParentConditions>>

\* isRelationshipCondition
RECURSIVE isRelationshipCondition(_)
isRelationshipCondition(c) ==
    \/ (c.nested # <<>> /\ ~c.isGroup /\ ~c.isOr)
    \/ \E i \in 1..Len(c.nested) : isRelationshipCondition(c.nested[i])

Operators ==
    { <<"CONTAINS">>, <<"IN">>, <<"NOT", "IN">>, <<"INCLUDES">>, <<"MATCHES">>,
      <<"ENDS", "WITH">>, <<"NOT", "ENDS", "WITH">>, <<"NOT", "CONTAINS">>,
      <<"GT">>, <<"GTE">>, <<"LT">>, <<"LTE">>, <<"NOT">>, <<"EQUALS">> }

\* createSinglePropertyConditionExpression with INCLUDES read as IN
createSinglePropertyConditionExpressionUnreversed(condition, levelText) ==
    LET X == (IF condition.isRelationship
              THEN <<"rel_", condition.parentPropertyName>>
              ELSE <<toCamelCase(condition.parentType)>>)
             \o levelText \o <<".", PropertyText(condition)>>
        v == ValueStrings(condition.value)
        op == IF condition.operator = <<>> THEN <<"EQUALS">> ELSE condition.operator
    IN  CASE op = <<"CONTAINS">> -> <<X, S("CONTAINS")>> \o v
          [] op = <<"IN">> -> <<X, S("IN")>> \o v
          [] op = <<"NOT", "IN">> -> <<S("NOT"), S("("), X, S("IN")>> \o v \o <<S(")")>>
          [] op = <<"INCLUDES">> -> <<X, S("IN")>> \o v
          [] op = <<"MATCHES">> -> <<X, S("=~")>> \o v
          [] op = <<"ENDS", "WITH">> -> <<X, S("ENDS WITH")>> \o v
          [] op = <<"NOT", "ENDS", "WITH">> ->
                <<S("NOT"), S("("), X, S("ENDS WITH")>> \o v \o <<S(")")>>
          [] op = <<"NOT", "CONTAINS">> ->
                <<S("NOT"), S("("), X, S("CONTAINS")>> \o v \o <<S(")")>>
          [] op = <<"GT">> -> <<X, S(">")>> \o v
          [] op = <<"GTE">> -> <<X, S(">=")>> \o v
          [] op = <<"LT">> -> <<X, S("<")>> \o v
          [] op = <<"LTE">> -> <<X, S("<=")>> \o v
          [] op = <<"NOT">> -> <<X, S("<>")>> \o v
          [] op = <<"EQUALS">> -> <<X, S("=")>> \o v
          [] OTHER -> <<ThrowToken("Unknown operator") \o op>>

\* createSinglePropertyConditionExpression, with the value spread by flat()
createSinglePropertyConditionExpression(condition, levelText) ==
    LET X == (IF condition.isRelationship
              THEN <<"rel_", condition.parentPropertyName>>
              ELSE <<toCamelCase(condition.parentType)>>)
             \o levelText \o <<".", PropertyText(condition)>>
        v == ValueStrings(condition.value)
        op == IF condition.operator = <<>> THEN <<"EQUALS">> ELSE condition.operator
    IN  CASE op = <<"CONTAINS">> -> <<X, S("CONTAINS")>> \o v
          [] op = <<"IN">> -> <<X, S("IN")>> \o v
          [] op = <<"NOT", "IN">> -> <<S("NOT"), S("("), X, S("IN")>> \o v \o <<S(")")>>
          [] op = <<"INCLUDES">> -> v \o <<S("IN"), X>>
          [] op = <<"MATCHES">> -> <<X, S("=~")>> \o v
          [] op = <<"ENDS", "WITH">> -> <<X, S("ENDS WITH")>> \o v
          [] op = <<"NOT", "ENDS", "WITH">> ->
                <<S("NOT"), S("("), X, S("ENDS WITH")>> \o v \o <<S(")")>>
          [] op = <<"NOT", "CONTAINS">> ->
                <<S("NOT"), S("("), X, S("CONTAINS")>> \o v \o <<S(")")>>
          [] op = <<"GT">> -> <<X, S(">")>> \o v
          [] op = <<"GTE">> -> <<X, S(">=")>> \o v
          [] op = <<"LT">> -> <<X, S("<")>> \o v
          [] op = <<"LTE">> -> <<X, S("<=")>> \o v
          [] op = <<"NOT">> -> <<X, S("<>")>> \o v
          [] op = <<"EQUALS">> -> <<X, S("=")>> \o v
          [] OTHER -> <<ThrowToken("Unknown operator") \o op>>

\* `${level}` and `${level}_${index}`; index -1 stands for undefined
LevelText(lvl, index) ==
    IF index = -1 THEN <<ToString(lvl)>> ELSE <<ToString(lvl), "_", ToString(index)>>

\* createPropertyConditionExpressions: an array of expressions
RECURSIVE createPropertyConditionExpressions(_, _, _, _)
createPropertyConditionExpressions(condition, lvl, index, includeEquality) ==
    IF condition.isOr
    THEN LET ns == condition.nested
             plain == SelectSeqIdx(ns, [i \in 1..Len(ns) |->
                          ~isRelationshipCondition(ns[i])], 1)
             ORConditions == Flat([i \in 1..Len(plain) |->
                 createPropertyConditionExpressions(plain[i], lvl, index, TRUE)])
         IN  IF ORConditions # <<>>
             THEN << <<S("(")>> \o Flat(insertBetweenArrayItems(ORConditions, <<S("OR")>>))
                     \o <<S(")")>> >>
             ELSE <<>>
    ELSE IF ~condition.isGroup
    THEN IF condition.operator # <<>> \/ includeEquality
         THEN <<createSinglePropertyConditionExpression(condition, LevelText(lvl, index))>>
         ELSE <<>>
    ELSE LET ns == condition.nested
             all == Flat([i \in 1..Len(ns) |->
                        createPropertyConditionExpressions(ns[i], lvl, index, includeEquality)])
             result == SelectSeqIdx(all, [i \in 1..Len(all) |-> all[i] # <<>>], 1)
         IN  insertBetweenArrayItems(result, <<S("AND")>>)

\* the index each Condition of a path gets in createExistentialWhereConditions
RECURSIVE PathIndexes(_, _)
PathIndexes(path, index) ==
    IF path = <<>> THEN <<>>
    ELSE <<index>> \o PathIndexes(Tail(path),
                         IF Head(path).isGroup \/ Head(path).isOr THEN index ELSE index + 1)

\* createExistentialWhereConditions
createExistentialWhereConditions(path, lvl) ==
    LET idx == PathIndexes(path, 0)
    IN  insertBetweenArrayItems(
            Flat([i \in 1..Len(path) |->
                Flat([j \in 1..Len(path[i].nested) |->
                    createPropertyConditionExpressions(path[i].nested[j], lvl, idx[i], FALSE)])]),
            <<S("AND")>>)

\* createExistentialExpressionPatternByPathRecursive
RECURSIVE createExistentialExpressionPatternByPathRecursive(_, _, _, _)
createExistentialExpressionPatternByPathRecursive(path, lvl, omitVariables, index) ==
    IF path = <<>> THEN <<>>
    ELSE LET head == Head(path)
             rest == Tail(path)
         IN  IF head.isOr \/ head.isGroup
             THEN createExistentialExpressionPatternByPathRecursive(rest, lvl, omitVariables, index)
             ELSE IF ~HasField(head.parentType, head.property)
             THEN <<ThrowToken("TypeError")>>
             ELSE LET relationship == FindDirective(head.parentType,
                                          ReplaceConnectionSuffix(head.property), "relationship")
                      fieldType == schema[head.parentType][head.property].type
                  IN  (IF index = 0
                       THEN <<S("("), <<toCamelCase(head.parentType), ToString(lvl)>>, S(")")>>
                       ELSE <<>>)
                      \o createRelationshipPatternPart(relationship, head.property, head.nested,
                                                       LevelText(lvl, index), omitVariables)
                      \o <<S("(")>>
                      \o (IF omitVariables THEN <<>>
                          ELSE << <<toCamelCase(fieldType)>> \o LevelText(lvl, index) >>)
                      \o << <<":", getTargetIfConnectionType(fieldType)>> >>
                      \o createPropertyMatchingPatternPart(head.nested, TRUE)
                      \o <<S(")")>>
                      \o createExistentialExpressionPatternByPathRecursive(
                             rest, lvl, omitVariables, index + 1)

\* createExistentialExpressionPatternByPathRoot when the slow form omits the
\* pattern variables as the fast form does
createExistentialExpressionPatternByPathRootOmitting(path, lvl) ==
    LET fast == canCreateFastExistentialExpression(path)
        patternElements == createExistentialExpressionPatternByPathRecursive(path, lvl, TRUE, 0)
    IN  IF fast
        THEN <<S("exists"), S("(")>> \o patternElements \o <<S(")")>>
        ELSE <<S("exists"), S("{")>> \o patternElements \o <<S("WHERE")>>
             \o Flat(createExistentialWhereConditions(path, lvl)) \o <<S("}")>>

\* createExistentialExpressionPatternByPathRoot
createExistentialExpressionPatternByPathRoot(path, lvl) ==
    LET fast == canCreateFastExistentialExpression(path)
        patternElements == createExistentialExpressionPatternByPathRecursive(path, lvl, fast, 0)
    IN  IF fast
        THEN <<S("exists"), S("(")>> \o patternElements \o <<S(")")>>
        ELSE <<S("exists"), S("{")>> \o patternElements \o <<S("WHERE")>>
             \o Flat(createExistentialWhereConditions(path, lvl)) \o <<S("}")>>

\* createConditionExpressions
createConditionExpressions(path, lvl) ==
    IF \A i \in 1..Len(path) :
          path[i].isGroup \/ path[i].isOr \/ path[i].operator # <<>> \/ path[i].nested = <<>>
    THEN Flat(Flat([i \in 1..Len(path) |->
                 createPropertyConditionExpressions(path[i], lvl, -1, FALSE)]))
    ELSE createExistentialExpressionPatternByPathRoot(path, lvl)

\* the paths of createWhereCondition: allPaths, and its partition by isOr
AllPaths(conditionTrees) ==
    LET relationshipConditions ==
            SelectSeqIdx(conditionTrees, [i \in 1..Len(conditionTrees) |->
                isRelationshipCondition(conditionTrees[i])], 1)
    IN  Flat([i \in 1..Len(relationshipConditions) |->
                getDeepFirstSearchPaths(relationshipConditions[i], <<>>)])

PathHasOr(path) == \E i \in 1..Len(path) : path[i].isOr

\* createWhereCondition's elements when the property conditions of the
\* matched node are created with includeEquality set
WhereElementsWithEquality(allPaths, conditionTrees, lvl) ==
    Flat(insertBetweenArrayItems(
        [i \in 1..Len(allPaths) |-> createConditionExpressions(allPaths[i], lvl)]
        \o Flat([i \in 1..Len(conditionTrees) |->
               IF conditionTrees[i].nested = <<>> /\ conditionTrees[i].value.kind = "scalar"
               THEN createPropertyConditionExpressions(conditionTrees[i], lvl, -1, TRUE)
               ELSE <<>>]),
        <<S("AND")>>))

\* the elements createWhereCondition joins with AND: the OR paths as one
\* element, each AND path, each property condition
WhereElements(allPaths, conditionTrees, lvl) ==
    LET ORPaths == SelectSeqIdx(allPaths, [i \in 1..Len(allPaths) |-> PathHasOr(allPaths[i])], 1)
        ANDPaths == SelectSeqIdx(allPaths, [i \in 1..Len(allPaths) |-> ~PathHasOr(allPaths[i])], 1)
    IN  Flat(insertBetweenArrayItems(
            << Flat(insertBetweenArrayItems(
                   [i \in 1..Len(ORPaths) |-> createConditionExpressions(ORPaths[i], lvl)],
                   <<S("OR")>>)) >>
            \o [i \in 1..Len(ANDPaths) |-> createConditionExpressions(ANDPaths[i], lvl)]
            \o Flat([i \in 1..Len(conditionTrees) |->
                   createPropertyConditionExpressions(conditionTrees[i], lvl, -1, FALSE)]),
            <<S("AND")>>))

WhereClause(elements) == IF elements # <<>> THEN <<S("WHERE")>> \o elements ELSE <<>>

\* createWhereCondition
createWhereCondition(conditionTrees, lvl) ==
    WhereClause(WhereElements(AllPaths(conditionTrees), conditionTrees, lvl))

-----------------------------------------------------------------------------
(* The query document.                                                      *)

Field(name, alias, args, sels) ==
    [kind |-> "Field", name |-> name, alias |-> alias, arguments |-> args,
     hasSelectionSet |-> sels # <<>>, selections |-> sels]
InlineFragment(typeCondition, sels) ==
    [kind |-> "InlineFragment", typeCondition |-> typeCondition,
     hasSelectionSet |-> TRUE, selections |-> sels]
FragmentSpread(name) == [kind |-> "FragmentSpread", name |-> name]
FragmentDefinition(sels) ==
    [kind |-> "FragmentDefinition", hasSelectionSet |-> TRUE, selections |-> sels]
OperationDefinition(sels) ==
    [kind |-> "OperationDefinition", hasSelectionSet |-> TRUE, selections |-> sels]

-----------------------------------------------------------------------------
(* The emitter: GraphQlQueryCompiler.  The helpers take the stacks as they  *)
(* are when the code calls them (visitField has pushed the new frame).      *)
(* tp[Len(tp) - k] is the code's typePath[typePath.length - 1 - k].         *)

Token(lvl, value) == [type |-> "property-selector", level |-> lvl, value |-> value]

\* fieldNode.alias?.value || fieldNode.name.value
AliasOrName(fieldNode) == IF fieldNode.alias # "" THEN fieldNode.alias ELSE fieldNode.name

\* tryGetSystemFieldValue: a one-element sequence holding the value, or <<>>
tryGetSystemFieldValue(field, tp) ==
    IF field.name = "__typename"
    THEN << <<S(field.name), S(":"),
              IF tp # <<>> /\ Last(tp) # "undefined" THEN Quoted(Last(tp)) ELSE S("null")>> >>
    ELSE <<>>

\* getCypherDirective
getCypherDirective(tp, fp) == FindDirective(tp[Len(tp) - 1], Last(fp).name, "cypher")

\* getRelationshipDirective
getRelationshipDirective(tp, fp) ==
    LET fieldName == Last(fp).name
        shiftToRelationshipField == IF fieldName = "edges" THEN 1 ELSE 0
    IN  IF ConnectionSuffixRegex(fieldName) THEN <<>>
        ELSE IF Len(fp) - shiftToRelationshipField < 1 THEN <<>>
        ELSE FindDirective(tp[Len(tp) - 1 - shiftToRelationshipField],
                           ReplaceConnectionSuffix(fp[Len(fp) - shiftToRelationshipField].name),
                           "relationship")

\* Array.prototype.findIndex on the reversed slice of getClosestNodeLevel
RECURSIVE FindIndexReversed(_, _)
FindIndexReversed(fp, k) ==
    IF k > Len(fp) - 2 THEN -1
    ELSE LET f == fp[Len(fp) - 1 - k]
         IN  IF f.name # "node" /\ ~ConnectionSuffixRegex(f.name) THEN k
             ELSE FindIndexReversed(fp, k + 1)

\* getClosestNodeLevel when it answers the level of the parent field
getParentLevel(fp) == Len(fp) - 2

\* getClosestNodeLevel
getClosestNodeLevel(fp) == Len(fp) - 2 - FindIndexReversed(fp, 0)

\* nodeVariableName
nodeVariableName(tp, lvl) ==
    <<toCamelCase(getTargetIfConnectionType(tp[Len(tp) - 2])), ToString(lvl - 1)>>

\* createCypherCodeCallExpression
createCypherCodeCallExpression(cypherDirective, tp, fp) ==
    <<S("apoc.cypher.runFirstColumn("),
      <<"\"", cypherDirective[1].statement, "\"">>,
      S(","), S("{"), S("this"), S(":"),
      <<toCamelCase(tp[Len(tp) - 1]), ToString(getClosestNodeLevel(fp))>>,
      S(","), S("cypherParams"), S(":"), S("$cypherParams"), S("}"), S(")")>>

\* createNodeMatchingExpression
createNodeMatchingExpression(fieldType, trees, lvl) ==
    <<S("("), <<toCamelCase(fieldType), ToString(lvl)>>, S(":"), S(fieldType)>>
    \o createPropertyMatchingPatternPart(trees, TRUE)
    \o <<S(")")>>
    \o createWhereCondition(trees, lvl)

\* the MATCH form of insertTopLevelExpression, for the condition trees built
TopLevelMatch(fieldType, trees, lvl) ==
    IF HasError(trees)
    THEN [strings |-> <<ThrowToken(ErrorOf(trees))>>, trees |-> <<trees>>]
    ELSE [strings |-> <<S("MATCH")>>
                      \o createNodeMatchingExpression(fieldType, trees, lvl)
                      \o <<S("RETURN"), <<toCamelCase(fieldType), ToString(lvl)>> >>,
          trees |-> <<trees>>]

\* insertTopLevelExpression: the strings pushed to the field's token, and the
\* condition trees built (a one-element sequence, <<>> when none are built)
insertTopLevelExpression(fieldNode, fieldType, cypherDirective, tp, fp, lvl) ==
    IF cypherDirective # <<>>
    THEN [strings |-> <<S("UNWIND")>>
                      \o createCypherCodeCallExpression(cypherDirective, tp, fp)
                      \o <<S("as"), <<toCamelCase(fieldType), ToString(lvl)>>,
                           S("RETURN"), <<toCamelCase(fieldType), ToString(lvl)>> >>,
          trees |-> <<>>]
    ELSE TopLevelMatch(fieldType,
             createConditionTreesByField(fieldNode.arguments, fieldType, fieldNode.name), lvl)

\* the strings of createRelationshipBasedComprehension, for the condition
\* trees built
RelationshipComprehension(fieldNode, relationshipDirective, sourceType, targetType, trees, fp, lvl) ==
    IF HasError(trees)
    THEN [strings |-> <<ThrowToken(ErrorOf(trees))>>, trees |-> <<trees>>]
    ELSE [strings |->
            <<S("["),
              <<"(", toCamelCase(sourceType), ToString(getClosestNodeLevel(fp)), ")">> >>
            \o createRelationshipPatternPart(relationshipDirective, fieldNode.name, trees,
                                             <<ToString(lvl)>>, FALSE)
            \o createNodeMatchingExpression(targetType, trees, lvl)
            \o <<S("|"),
                 IF fieldNode.name = "edges" THEN <<"rel_", fieldNode.name, ToString(lvl)>>
                 ELSE <<toCamelCase(targetType), ToString(lvl)>> >>,
          trees |-> <<trees>>]

\* createRelationshipBasedComprehension
createRelationshipBasedComprehension(fieldNode, relationshipDirective, tp, fp, fnp, lvl) ==
    LET isEdges == fieldNode.name = "edges"
        sourceType == tp[Len(tp) - (IF isEdges THEN 2 ELSE 1)]
        relationshipType == tp[Len(tp) - (IF isEdges THEN 1 ELSE 0)]
        relationshipFieldNode == fnp[Len(fnp) - (IF isEdges THEN 1 ELSE 0)]
    IN  RelationshipComprehension(fieldNode, relationshipDirective, sourceType,
            getTargetIfConnectionType(relationshipType),
            createConditionTreesByField(relationshipFieldNode.arguments,
                                        relationshipType, relationshipFieldNode.name),
            fp, lvl)

\* createCypherBasedListComprehension
createCypherBasedListComprehension(cypherDirective, tp, fp, lvl) ==
    LET fieldType == Last(fp).type
    IN  <<S("["), <<toCamelCase(fieldType), ToString(lvl)>>, S("in")>>
        \o createCypherCodeCallExpression(cypherDirective, tp, fp)
        \o <<S("|"), <<toCamelCase(fieldType), ToString(lvl)>> >>

\* what visitField reports: the strings pushed to the field's token, the
\* list-comprehension flag of the frame, the return value and the condition
\* trees built
FieldResult(strings, flag, handled, trees) ==
    [strings |-> strings, flag |-> flag, handled |-> handled, trees |-> trees]
Expression(head, flag, c) == FieldResult(head \o c.strings, flag, FALSE, c.trees)

\* visitField below the root, for a field of an object type
VisitObjectField(fieldNode, schemaField, cypherDirective, relationshipDirective, tp, fp, fnp, lvl) ==
    LET head == <<S(AliasOrName(fieldNode)), S(":")>>
        flag == IF schemaField.isList THEN "list" ELSE "single"
    IN  IF cypherDirective = <<>> /\ relationshipDirective = <<>>
        THEN IF fieldNode.name = "node"
             THEN IF Len(tp) < 3
                  THEN FieldResult(head \o <<ThrowToken("TypeError")>>, "null", FALSE, <<>>)
                  ELSE FieldResult(head \o <<nodeVariableName(tp, lvl)>>, "null", FALSE, <<>>)
             ELSE IF ~ConnectionSuffixRegex(fieldNode.name)
             THEN FieldResult(head \o <<S("null")>>, "null", TRUE, <<>>)
             ELSE FieldResult(head, "null", FALSE, <<>>)
        ELSE IF cypherDirective # <<>>
        THEN FieldResult(
                 head \o createCypherBasedListComprehension(cypherDirective, tp, fp, lvl),
                 flag, FALSE, <<>>)
        ELSE Expression(head, flag,
                 createRelationshipBasedComprehension(
                     fieldNode, relationshipDirective, tp, fp, fnp, lvl))

\* visitField below the root, for a field of a scalar or enum type, with the
\* alias or name and a colon in front of the property shorthand
VisitScalarFieldAliased(fieldNode, schemaField, cypherDirective, tp, fp) ==
    FieldResult(
        IF cypherDirective # <<>>
        THEN <<S(AliasOrName(fieldNode)), S(":")>>
             \o createCypherCodeCallExpression(cypherDirective, tp, fp)
             \o (IF schemaField.isList THEN <<>> ELSE <<S("[0]")>>)
        ELSE <<S(AliasOrName(fieldNode)), S(":"), <<".", fieldNode.name>> >>,
        "null", FALSE, <<>>)

\* visitField below the root, for a field of a scalar or enum type
VisitScalarField(fieldNode, schemaField, cypherDirective, tp, fp) ==
    FieldResult(
        IF cypherDirective # <<>>
        THEN <<S(AliasOrName(fieldNode)), S(":")>>
             \o createCypherCodeCallExpression(cypherDirective, tp, fp)
             \o (IF schemaField.isList THEN <<>> ELSE <<S("[0]")>>)
        ELSE << <<".", fieldNode.name>> >>,
        "null", FALSE, <<>>)

\* visitField from the directives of the pushed frame on
VisitFieldDirected(fieldNode, schemaField, cypherDirective, relationshipDirective, tp, fp, fnp, lvl) ==
    IF lvl = 0
    THEN Expression(<<>>, "null",
             insertTopLevelExpression(fieldNode, schemaField.type, cypherDirective, tp, fp, lvl))
    ELSE IF ~isObjectType(schemaField.type)
    THEN VisitScalarField(fieldNode, schemaField, cypherDirective, tp, fp)
    ELSE VisitObjectField(fieldNode, schemaField, cypherDirective, relationshipDirective,
                          tp, fp, fnp, lvl)

\* visitField from the push of the new frame on
VisitFieldBody(fieldNode, schemaField, tp, fp, fnp, lvl) ==
    VisitFieldDirected(fieldNode, schemaField, getCypherDirective(tp, fp),
                       getRelationshipDirective(tp, fp), tp, fp, fnp, lvl)

\* the exception, if any, the strings of a callback stand for: the array is
\* built left to right, so the first throw is the one that is raised
ThrownBy(strings) ==
    IF ~HasThrow(strings) THEN ""
    ELSE strings[CHOOSE k \in 1..Len(strings) :
                    /\ IsThrowToken(strings[k])
                    /\ \A j \in 1..(k - 1) : ~IsThrowToken(strings[j])][2]

\* the compiler's state when visitField pushes no list-comprehension flag
PushedFrameWithoutFlag(fp, fnp, tp, lvl, body, thrown) ==
    [fieldPath |-> fp, fieldNodePath |-> fnp, typePath |-> tp,
     listComprehensionFlagPath |-> listComprehensionFlagPath,
     level |-> lvl, handled |-> body.handled, trees |-> body.trees,
     tokenBuffer |-> Append(tokenBuffer, Token(lvl, IF thrown = "" THEN body.strings ELSE <<>>)),
     thrown |-> thrown]

\* the compiler's state once visitField has pushed the frame and run its body
PushedFrame(fp, fnp, tp, lvl, body, thrown) ==
    [fieldPath |-> fp, fieldNodePath |-> fnp, typePath |-> tp,
     listComprehensionFlagPath |->
         Append(listComprehensionFlagPath, IF thrown = "" THEN body.flag ELSE "null"),
     level |-> lvl, handled |-> body.handled, trees |-> body.trees,
     tokenBuffer |-> Append(tokenBuffer, Token(lvl, IF thrown = "" THEN body.strings ELSE <<>>)),
     thrown |-> thrown]

VisitFieldFrame(fp, fnp, tp, lvl, body) ==
    PushedFrame(fp, fnp, tp, lvl, body, ThrownBy(body.strings))

\* visitField: the compiler's state after the call, its return value (handled)
\* and whether it threw
VisitFieldResult(fieldNode) ==
    LET lvl == level + 1
        systemValue == tryGetSystemFieldValue(fieldNode, typePath)
        unchangedPaths ==
            [fieldPath |-> fieldPath, fieldNodePath |-> fieldNodePath,
             typePath |-> typePath, listComprehensionFlagPath |-> listComprehensionFlagPath,
             level |-> lvl, handled |-> FALSE, trees |-> <<>>]
    IN  IF systemValue # <<>>
        THEN unchangedPaths @@
             [tokenBuffer |-> Append(tokenBuffer, Token(lvl, systemValue[1])), thrown |-> ""]
        ELSE IF ~HasField(Last(typePath), fieldNode.name)
        THEN unchangedPaths @@
             [tokenBuffer |-> Append(tokenBuffer, Token(lvl, <<>>)), thrown |-> "TypeError"]
        ELSE LET f == schema[Last(typePath)][fieldNode.name]
                 schemaField == [name |-> fieldNode.name, type |-> f.type, isList |-> f.isList]
                 fnp == Append(fieldNodePath, fieldNode)
                 fp == Append(fieldPath, schemaField)
                 tp == Append(typePath, f.type)
             IN  VisitFieldFrame(fp, fnp, tp, lvl,
                     VisitFieldBody(fieldNode, schemaField, tp, fp, fnp, lvl))

-----------------------------------------------------------------------------
(* Options: sort, offset and limit of the root field.                       *)

\* a string readOptions builds from pieces (`'${node.value}'`)
JsText(pieces) == [t |-> "text", pieces |-> pieces]

\* readOptions; the value of an IntValue node is the text of the literal, a
\* string
RECURSIVE readOptions(_)
readOptions(node) ==
    CASE node.kind = "Variable" -> VariableValue(node.name)
      [] node.kind = "ListValue" ->
            JsArray([i \in 1..Len(node.values) |-> readOptions(node.values[i])])
      [] node.kind = "ObjectValue" ->
            JsObject([i \in 1..Len(node.fields) |->
                         JsEntry(node.fields[i].name, readOptions(node.fields[i].value))])
      [] node.kind = "StringValue" -> JsText(Quoted(node.value))
      [] node.kind = "NullValue" -> JsNull
      [] node.kind = "BooleanValue" -> JsBoolean(node.value)
      [] OTHER -> JsString(node.value)

\* String(value) of a scalar
JsToString(v) ==
    CASE v.t = "text" -> v.pieces
      [] v.t \in {"string", "number", "boolean"} -> S(v.v)
      [] v.t = "null" -> S("null")
      [] v.t = "undefined" -> S("undefined")
      [] OTHER -> S("[object Object]")

\* castToArray of shared/cast-to-array: an array as it is, nothing for an
\* empty value, otherwise the one value
castToArray(v) ==
    IF v.t = "array" THEN v.items
    ELSE IF v.t \in {"undefined", "null"} THEN <<>>
    ELSE <<v>>

\* isEmptyValue on a runtime value
JsIsEmptyValue(v) == v.t \in {"undefined", "null"} \/ (v.t = "string" /\ v.v = "")

\* processOptions with LIMIT put before SKIP
processOptionsLimitFirst(args, tp, lvl) ==
    LET optionsArg == FindArgument(args, "options")
        options == IF optionsArg = <<>> THEN JsObject(<<>>) ELSE readOptions(optionsArg[1].value)
        fieldType == Last(tp)
        sorts == castToArray(GetProperty(options, "sort"))
        entries == Flat([i \in 1..Len(sorts) |->
                      IF sorts[i].t = "object" THEN sorts[i].entries ELSE <<>>])
        sortItems == [i \in 1..Len(entries) |->
                        <<toCamelCase(fieldType), ToString(lvl), ".">>
                        \o Flat(Intersperse([j \in 1..Len(entries[i].name) |->
                                                <<entries[i].name[j]>>], S("_")))
                        \o <<" ">> \o JsToString(entries[i].value)]
        offset == GetProperty(options, "offset")
        limit == GetProperty(options, "limit")
    IN  IF options.t \in {"undefined", "null"}
        THEN <<ThrowToken("TypeError")>>
        ELSE (IF sortItems # <<>>
              THEN <<S("ORDER BY")>> \o insertBetweenArrayItems(sortItems, S(","))
              ELSE <<>>)
             \o (IF ~JsFalsy(limit) THEN <<S("LIMIT"), JsToString(limit)>> ELSE <<>>)
             \o (IF ~JsIsEmptyValue(offset) THEN <<S("SKIP"), JsToString(offset)>> ELSE <<>>)

\* processOptions
processOptions(args, tp, lvl) ==
    LET optionsArg == FindArgument(args, "options")
        options == IF optionsArg = <<>> THEN JsObject(<<>>) ELSE readOptions(optionsArg[1].value)
        fieldType == Last(tp)
        sorts == castToArray(GetProperty(options, "sort"))
        entries == Flat([i \in 1..Len(sorts) |->
                      IF sorts[i].t = "object" THEN sorts[i].entries ELSE <<>>])
        sortItems == [i \in 1..Len(entries) |->
                        <<toCamelCase(fieldType), ToString(lvl), ".">>
                        \o Flat(Intersperse([j \in 1..Len(entries[i].name) |->
                                                <<entries[i].name[j]>>], S("_")))
                        \o <<" ">> \o JsToString(entries[i].value)]
        offset == GetProperty(options, "offset")
        limit == GetProperty(options, "limit")
    IN  IF options.t \in {"undefined", "null"}
        THEN <<ThrowToken("TypeError")>>
        ELSE (IF sortItems # <<>>
              THEN <<S("ORDER BY")>> \o insertBetweenArrayItems(sortItems, S(","))
              ELSE <<>>)
             \o (IF ~JsIsEmptyValue(offset) THEN <<S("SKIP"), JsToString(offset)>> ELSE <<>>)
             \o (IF ~JsFalsy(limit) THEN <<S("LIMIT"), JsToString(limit)>> ELSE <<>>)

-----------------------------------------------------------------------------
(* Closing callbacks.                                                       *)

\* last(this.tokenBuffer)?.value.push(...strings)
PushToLastToken(tb, strings) ==
    IF tb = <<>> THEN tb
    ELSE [tb EXCEPT ![Len(tb)].value = @ \o strings]

\* the closing strings when every comprehension is closed as a list
ClosersOfList(listComprehensionFlag) == <<S("]")>>

\* listComprehensionFlag === "list" ? ["]"] : ["]", "[0]"]
Closers(listComprehensionFlag) ==
    IF listComprehensionFlag = "list" THEN <<S("]")>> ELSE <<S("]"), S("[0]")>>

\* visitEndField after processOptions: the compiler's state after the call and
\* whether it threw
EndField(fieldNode, options) ==
    LET tb1 == IF HasThrow(options) THEN tokenBuffer ELSE PushToLastToken(tokenBuffer, options)
        systemValue == tryGetSystemFieldValue(fieldNode, typePath)
        same == [fieldPath |-> fieldPath, fieldNodePath |-> fieldNodePath,
                 typePath |-> typePath, listComprehensionFlagPath |-> listComprehensionFlagPath,
                 level |-> level, tokenBuffer |-> tokenBuffer, thrown |-> "TypeError"]
    IN  IF HasThrow(options) THEN same
        ELSE IF systemValue # <<>>
        THEN [same EXCEPT !.level = level - 1, !.tokenBuffer = tb1, !.thrown = ""]
        ELSE LET listComprehensionFlag ==
                     IF listComprehensionFlagPath = <<>> THEN "null"
                     ELSE Last(listComprehensionFlagPath)
             IN  [fieldPath |-> Pop(fieldPath),
                  fieldNodePath |-> Pop(fieldNodePath),
                  typePath |-> Pop(typePath),
                  listComprehensionFlagPath |-> Pop(listComprehensionFlagPath),
                  level |-> level - 1,
                  tokenBuffer |->
                      IF listComprehensionFlag # "null" /\ level > 0
                      THEN PushToLastToken(tb1, Closers(listComprehensionFlag))
                      ELSE tb1,
                  thrown |-> ""]

\* visitEndField
VisitEndFieldResult(fieldNode) ==
    EndField(fieldNode,
             IF level = 0 THEN processOptions(fieldNode.arguments, typePath, level) ELSE <<>>)

\* visitEndSelectionSet without the early return for the selection sets of
\* fragments
VisitEndSelectionSetResultAtFragments(parentNode) ==
    IF level = -1
    THEN [tokenBuffer |-> tokenBuffer, buffer |-> buffer]
    ELSE LET deeper == [i \in 1..Len(tokenBuffer) |->
                           tokenBuffer[i].type = "property-selector"
                           /\ tokenBuffer[i].level > level]
             thisLevelFieldTokens == SelectSeqIdx(tokenBuffer, deeper, 1)
             upperLevelFieldTokens ==
                 SelectSeqIdx(tokenBuffer, [i \in 1..Len(tokenBuffer) |-> ~deeper[i]], 1)
             projection ==
                 <<S("{")>>
                 \o Flat(insertBetweenArrayItems(
                        [i \in 1..Len(thisLevelFieldTokens) |-> thisLevelFieldTokens[i].value],
                        <<S(",")>>))
                 \o <<S("}")>>
         IN  IF upperLevelFieldTokens # <<>>
             THEN [tokenBuffer |-> PushToLastToken(upperLevelFieldTokens, projection),
                   buffer |-> buffer]
             ELSE [tokenBuffer |-> upperLevelFieldTokens, buffer |-> buffer \o projection]

\* visitEndSelectionSet: the token buffer and the buffer after the call
VisitEndSelectionSetResult(parentNode) ==
    IF parentNode.kind = "FragmentDefinition" \/ parentNode.kind = "InlineFragment"
       \/ level = -1
    THEN [tokenBuffer |-> tokenBuffer, buffer |-> buffer]
    ELSE LET deeper == [i \in 1..Len(tokenBuffer) |->
                           tokenBuffer[i].type = "property-selector"
                           /\ tokenBuffer[i].level > level]
             thisLevelFieldTokens == SelectSeqIdx(tokenBuffer, deeper, 1)
             upperLevelFieldTokens ==
                 SelectSeqIdx(tokenBuffer, [i \in 1..Len(tokenBuffer) |-> ~deeper[i]], 1)
             projection ==
                 <<S("{")>>
                 \o Flat(insertBetweenArrayItems(
                        [i \in 1..Len(thisLevelFieldTokens) |-> thisLevelFieldTokens[i].value],
                        <<S(",")>>))
                 \o <<S("}")>>
         IN  IF upperLevelFieldTokens # <<>>
             THEN [tokenBuffer |-> PushToLastToken(upperLevelFieldTokens, projection),
                   buffer |-> buffer]
             ELSE [tokenBuffer |-> upperLevelFieldTokens, buffer |-> buffer \o projection]

\* buffer.join(" "): one string
Join(strings, separator) == Flat(Intersperse(strings, separator))

\* compile() that starts from an empty buffer
CompileBufferTokensOnly ==
    Flat([i \in 1..Len(tokenBuffer) |-> tokenBuffer[i].value])

\* what compile() pushes to the buffer
CompileBuffer ==
    buffer \o Flat([i \in 1..Len(tokenBuffer) |-> tokenBuffer[i].value])

-----------------------------------------------------------------------------
(* The inputs: documents, variables and the compiler class.                 *)

\* how often compile() is called on one compiler
MaxCompiles == 2

Leaf(name) == Field(name, "", <<>>, <<>>)
Key(k) == <<k>>
Where(v) == Argument("where", v)

\* the selection of the tests: a connection with its edges and node
CounterpartiesConnectionSelection(args) ==
    Field("counterpartiesConnection", "", args,
        <<Field("edges", "", <<>>,
            <<Leaf("role"), Leaf("isApprovalRequired"),
              Field("node", "", <<>>, <<Leaf("id"), Leaf("name")>>)>>)>>)

\* { k: v } and { k1: v1, k2: v2 }
Obj1(k, v) == ObjectValue(<<ObjectField(k, v)>>)
Obj2(k1, v1, k2, v2) == ObjectValue(<<ObjectField(k1, v1), ObjectField(k2, v2)>>)
Strings2(a, b) == ListValue(<<StringValue(a), StringValue(b)>>)

\* filters on Organization
OrgNameEq == Obj1(Key("name"), StringValue("Lads"))
OrgNameIn == Obj1(<<"name", "IN">>, Strings2("Lads", "Guys"))
OrgMembersEq == Obj1(Key("members"), Obj1(Key("name"), StringValue("Ann")))
OrgMembersOp == Obj1(Key("members"), Obj1(<<"name", "CONTAINS">>, StringValue("An")))
OrgOrEq ==
    Obj1(Key("OR"), ListValue(<<OrgNameEq, Obj1(Key("name"), StringValue("Devs"))>>))
OrgFilters ==
    <<OrgNameEq, OrgNameIn,
      Obj2(Key("name"), StringValue("Lads"), <<"name", "IN">>, Strings2("Lads", "Guys")),
      OrgOrEq,
      Obj1(Key("OR"), ListValue(<<OrgNameIn, OrgNameEq>>)),
      OrgMembersEq, OrgMembersOp,
      Obj2(Key("name"), StringValue("Lads"), Key("members"),
           Obj1(Key("name"), StringValue("Ann")))>>

\* filters on the edge of counterpartiesConnection
EdgeRoleEq == Obj1(Key("role"), EnumValue("BUYER_TEST"))
EdgeRoleIn ==
    Obj1(<<"role", "IN">>, ListValue(<<EnumValue("BUYER_TEST"), EnumValue("BUYER_FEST")>>))
EdgeFilters ==
    <<EdgeRoleEq, EdgeRoleIn,
      Obj2(Key("role"), EnumValue("BUYER_TEST"), <<"role", "IN">>,
           ListValue(<<EnumValue("BUYER_TEST"), EnumValue("BUYER_FEST")>>))>>

VersionEq(n) == Obj1(Key("version"), IntValue(n))

\* the entries a where object on BaseAgreement is made of
BaseAgreementEntries ==
    <<ObjectField(Key("status"), EnumValue("RUNNING_TEST")),
      ObjectField(Key("name"), StringValue("Agreement 1")),
      ObjectField(<<"version", "GTE">>, IntValue("0")),
      ObjectField(<<"version", "IN">>,
                  ListValue(<<IntValue("1"), IntValue("2"), IntValue("3")>>)),
      ObjectField(<<"name", "NOT", "IN">>, Strings2("a", "b")),
      ObjectField(Key("id"), Strings2("AG-1", "AG-2")),
      ObjectField(<<"name", "LIKE">>, StringValue("x")),
      ObjectField(Key("version"), Variable("version"))>>
    \o [i \in 1..Len(OrgFilters) |-> ObjectField(Key("counterparties"), OrgFilters[i])]
    \o [i \in 1..Len(EdgeFilters) |->
          ObjectField(Key("counterpartiesConnection"), Obj1(Key("edge"), EdgeFilters[i]))]
    \o <<ObjectField(Key("counterpartiesConnection"), Obj1(Key("node"), OrgNameEq)),
         ObjectField(Key("counterpartiesConnection"), Obj1(Key("node"), OrgNameIn)),
         ObjectField(Key("counterpartiesConnection"), Obj1(Key("node"), OrgOrEq)),
         ObjectField(Key("counterpartiesConnection"),
                     Obj2(Key("edge"), EdgeRoleEq, Key("node"), OrgNameEq)),
         ObjectField(Key("counterpartiesConnection"),
                     Obj2(Key("node"), OrgNameIn, Key("edge"), EdgeRoleEq)),
         ObjectField(Key("counterpartiesConnection"), OrgOrEq),
         \* node under parents that are no connection fields
         ObjectField(Key("counterparties"), Obj1(Key("node"), OrgNameEq)),
         ObjectField(Key("counterpartiesConnection"),
                     Obj1(Key("edges"), Obj1(Key("node"), OrgNameEq))),
         ObjectField(Key("treatmentPrices"),
             Obj1(Key("regulatedBy"), Obj1(Key("generic"), Obj1(Key("Name"), StringValue("g"))))),
         ObjectField(Key("treatmentPrices"),
             Obj2(Key("Name"), StringValue("t"),
                  Key("regulatedBy"), Obj1(<<"DescriptionDe", "CONTAINS">>, StringValue("x")))),
         \* test "Applies filter tree": AND in object form, with an OR inside
         ObjectField(Key("AND"), ObjectValue(<<
             ObjectField(<<"version", "GTE">>, IntValue("0")),
             ObjectField(<<"version", "LTE">>, IntValue("10")),
             ObjectField(Key("OR"), ListValue(<<VersionEq("1"), VersionEq("2")>>))>>)),
         ObjectField(Key("AND"), ListValue(<<
             Obj1(Key("status"), EnumValue("RUNNING_TEST")),
             Obj1(Key("counterparties"), OrgNameIn)>>)),
         ObjectField(Key("OR"), ListValue(<<VersionEq("1"), VersionEq("2")>>)),
         ObjectField(Key("OR"), ListValue(<<
             Obj2(Key("version"), IntValue("1"), Key("status"), EnumValue("RUNNING_TEST")),
             Obj1(<<"version", "GTE">>, IntValue("2"))>>)),
         ObjectField(Key("OR"), ListValue(<<
             Obj1(Key("counterparties"), OrgNameEq),
             Obj1(Key("counterparties"), OrgMembersOp)>>)),
         ObjectField(Key("OR"), ListValue(<<
             Obj1(Key("counterparties"), OrgNameEq),
             Obj1(Key("treatmentPrices"), Obj1(Key("Name"), StringValue("t")))>>)),
         ObjectField(Key("OR"), ListValue(<<
             Obj1(Key("counterparties"), OrgNameIn),
             VersionEq("1")>>)),
         \* an OR operand with a relationship filter and a property condition
         ObjectField(Key("OR"), ListValue(<<
             Obj2(Key("counterparties"), OrgNameIn, <<"version", "GTE">>, IntValue("2")),
             VersionEq("1")>>))>>

\* the where objects: up to MaxWhereKeys of the entries, in the order of the
\* list, no key twice
MaxWhereKeys == 2

RECURSIVE Picks(_, _, _)
Picks(entries, from, n) ==
    IF n = 0 THEN {<<>>}
    ELSE {<<>>} \cup
         UNION { { <<entries[i]>> \o rest : rest \in
                      { r \in Picks(entries, i + 1, n - 1) :
                          \A j \in 1..Len(r) : r[j].name # entries[i].name } }
                 : i \in from..Len(entries) }

BaseAgreementWheres ==
    { ObjectValue(fs) : fs \in Picks(BaseAgreementEntries, 1, MaxWhereKeys) \ {<<>>} }

\* the runtime value a client sends for the literal (the variable form of a
\* where argument, as in the test with $where)
RECURSIVE AstToRuntime(_)
AstToRuntime(node) ==
    CASE node.kind = "ObjectValue" ->
            JsObject([i \in 1..Len(node.fields) |->
                        JsEntry(node.fields[i].name, AstToRuntime(node.fields[i].value))])
      [] node.kind = "ListValue" ->
            JsArray([i \in 1..Len(node.values) |-> AstToRuntime(node.values[i])])
      [] node.kind \in {"StringValue", "EnumValue"} -> JsString(node.value)
      [] node.kind \in {"IntValue", "FloatValue"} -> JsNumber(node.value)
      [] node.kind = "BooleanValue" -> JsBoolean(node.value)
      [] node.kind = "Variable" -> JsString(node.name)
      [] OTHER -> JsNull

Input(t, op, fieldName, frags, vs) ==
    [tenant |-> t, operation |-> op, fieldName |-> fieldName, fragments |-> frags,
     variables |-> vs]

RootDoc(name, args, sels) == OperationDefinition(<<Field(name, "", args, sels)>>)

\* baseAgreements(where: W) { id }, W a literal
LiteralWhereInputs ==
    { Input(FALSE, RootDoc("baseAgreements", <<Where(w)>>, <<Leaf("id")>>),
            "baseAgreements", <<>>, [version |-> JsNumber("1")])
      : w \in BaseAgreementWheres }

\* baseAgreements(where: $where) { id }, with the same filters as variables
VariableWhereInputs ==
    { Input(FALSE, RootDoc("baseAgreements", <<Where(Variable("where"))>>, <<Leaf("id")>>),
            "baseAgreements", <<>>, [where |-> AstToRuntime(w), version |-> JsNumber("1")])
      : w \in BaseAgreementWheres }

\* test "Search by relationship properties on edge succeeds for embedded conditions"
WhereEdge ==
    ObjectValue(<<
        ObjectField(Key("status"), EnumValue("RUNNING_TEST")),
        ObjectField(Key("counterpartiesConnection"), ObjectValue(<<
            ObjectField(Key("edge"), ObjectValue(<<
                ObjectField(Key("role"), EnumValue("BUYER_TEST")),
                ObjectField(<<"role", "IN">>,
                    ListValue(<<EnumValue("BUYER_TEST"), EnumValue("BUYER_FEST")>>))>>))>>))>>)

DocSearchOnEdge ==
    RootDoc("baseAgreements", <<Where(WhereEdge)>>,
            <<Leaf("id"), Leaf("name"), CounterpartiesConnectionSelection(<<>>)>>)

Sub(name, sels) == Field(name, "", <<>>, sels)

\* test "Uses proper variable names for query objects", with two fields that
\* carry a cypher directive
TreatmentSelection ==
    <<Leaf("Code"), Leaf("Name"), Leaf("priceCount"),
      Sub("currentPrice", <<Leaf("Price")>>),
      Sub("regulatedBy", <<Leaf("id"), Sub("generic", <<Leaf("Name")>>),
                           Leaf("DescriptionDe")>>),
      Sub("exFactoryPrices", <<Leaf("Price"), Leaf("ValidFromDate")>>)>>

DocVariableNames ==
    RootDoc("baseAgreements", <<>>,
        <<Sub("treatmentPricesConnection",
              <<Sub("edges", <<Sub("node", TreatmentSelection), Leaf("price")>>)>>),
          Sub("treatmentPrices", TreatmentSelection)>>)

\* test "Query with fragments succeeded"
FieldsFragment ==
    FragmentDefinition(
        <<Leaf("id"), Leaf("name"),
          Field("counterparties", "", <<Where(OrgNameIn)>>, <<Leaf("id"), Leaf("name")>>)>>)

DocFragments ==
    RootDoc("baseAgreements", <<Where(Obj1(Key("status"), StringValue("RUNNING_TEST")))>>,
            <<FragmentSpread("FieldsFragment")>>)

\* a selection inside an inline fragment, with __typename
DocInlineFragment ==
    RootDoc("baseAgreements", <<>>,
        <<InlineFragment("BaseAgreement",
              <<Leaf("id"), Leaf("__typename"),
                Sub("counterparties", <<Leaf("id"), Leaf("__typename")>>),
                Sub("settings", <<Leaf("theme")>>)>>),
          Leaf("name")>>)

\* every kind of field below the root
DocFields ==
    RootDoc("baseAgreements", <<>>,
        <<Leaf("__typename"), Leaf("id"), Field("name", "title", <<>>, <<>>), Leaf("status"),
          Leaf("partnerCount"), Field("allowedForms", "forms", <<>>, <<>>),
          Sub("mainPartner", <<Leaf("id"), Leaf("name")>>),
          Sub("tags", <<Leaf("name")>>),
          Sub("settings", <<Leaf("theme")>>),
          Sub("creator", <<Leaf("id"), Leaf("name")>>),
          Sub("initialVersion", <<Leaf("id"), Sub("counterparties", <<Leaf("id")>>)>>),
          Field("counterparties", "partners", <<Where(OrgNameEq)>>,
                <<Leaf("id"), Sub("members", <<Leaf("id")>>)>>),
          CounterpartiesConnectionSelection(<<Where(Obj1(Key("node"), OrgNameIn))>>)>>)

\* inline fragments around fields with a directive, around node and around
\* edges
DocFragmentDirectives ==
    RootDoc("baseAgreements", <<>>,
        <<InlineFragment("BaseAgreement",
              <<Leaf("partnerCount"), Sub("mainPartner", <<Leaf("id")>>),
                Sub("tags", <<Leaf("name")>>),
                Sub("creator",
                    <<Leaf("id"),
                      InlineFragment("User", <<Sub("memberOf", <<Leaf("id")>>)>>)>>)>>)>>)
DocFragmentInEdges ==
    RootDoc("baseAgreements", <<>>,
        <<Leaf("id"),
          Sub("counterpartiesConnection",
              <<Sub("edges",
                    <<InlineFragment("BaseAgreementCounterpartiesRelationship",
                          <<Leaf("role"), Sub("node", <<Leaf("id"), Leaf("name")>>)>>)>>)>>)>>)
DocFragmentInConnection ==
    RootDoc("baseAgreements", <<>>,
        <<Leaf("id"),
          Sub("counterpartiesConnection",
              <<InlineFragment("BaseAgreementCounterpartiesConnection",
                    <<Sub("edges", <<Leaf("role"), Sub("node", <<Leaf("id")>>)>>)>>)>>)>>)

\* a connection whose where argument filters the edge, and the edge and the
\* node
DocEdgeFilter ==
    RootDoc("baseAgreements", <<>>,
        <<Leaf("id"), CounterpartiesConnectionSelection(<<Where(Obj1(Key("edge"), EdgeRoleIn))>>)>>)
DocEdgeAndNodeFilter ==
    RootDoc("baseAgreements", <<>>,
        <<Leaf("id"),
          CounterpartiesConnectionSelection(
              <<Where(Obj2(Key("edge"), EdgeFilters[3], Key("node"), OrgNameIn))>>)>>)

\* root fields whose type carries tenantId or tenantIds
OrganizationsDoc(args) ==
    RootDoc("organizations", args,
            <<Leaf("id"), Sub("members", <<Leaf("id"), Sub("memberOf", <<Leaf("id")>>)>>)>>)
UsersDoc(args) ==
    RootDoc("users", args, <<Leaf("id"), Sub("memberOf", <<Leaf("name")>>)>>)
DocFlexEntities == RootDoc("flexEntities", <<>>, <<Leaf("id")>>)
DocMyOrganization ==
    RootDoc("myOrganization", <<>>, <<Leaf("id"), Sub("members", <<Leaf("id")>>)>>)

\* an operation with two root fields; the resolver names one
DocTwoRoots ==
    OperationDefinition(<<Field("organizations", "", <<>>, <<Leaf("id")>>),
                          Field("baseAgreements", "", <<>>, <<Leaf("name")>>)>>)

\* documents the compiler rejects
DocUnknownField == RootDoc("baseAgreements", <<>>, <<Leaf("id"), Leaf("unknown")>>)
DocNoTypeCondition ==
    RootDoc("baseAgreements", <<>>, <<InlineFragment("", <<Leaf("id")>>)>>)
DocUnknownFragment == RootDoc("baseAgreements", <<>>, <<FragmentSpread("Missing")>>)

Doc(t, op, fieldName) == Input(t, op, fieldName, <<>>, <<>>)

StructuralInputs ==
    UNION { { Doc(t, DocSearchOnEdge, "baseAgreements"),
              Doc(t, DocVariableNames, "baseAgreements"),
              Input(t, DocFragments, "baseAgreements",
                    [FieldsFragment |-> FieldsFragment], <<>>),
              Doc(t, DocInlineFragment, "baseAgreements"),
              Doc(t, DocFields, "baseAgreements"),
              Doc(t, DocEdgeFilter, "baseAgreements"),
              Doc(t, DocEdgeAndNodeFilter, "baseAgreements"),
              Doc(t, DocFragmentDirectives, "baseAgreements"),
              Doc(t, DocFragmentInEdges, "baseAgreements"),
              Doc(t, DocFragmentInConnection, "baseAgreements"),
              Doc(t, DocFlexEntities, "flexEntities"),
              Doc(t, DocMyOrganization, "myOrganization"),
              Doc(t, DocTwoRoots, "organizations"),
              Doc(t, DocTwoRoots, "baseAgreements"),
              Doc(t, DocUnknownField, "baseAgreements"),
              Doc(t, DocNoTypeCondition, "baseAgreements"),
              Doc(t, DocUnknownFragment, "baseAgreements") } : t \in BOOLEAN }

OrganizationArgs ==
    {<<>>} \cup { <<Where(OrgFilters[i])>> : i \in 1..Len(OrgFilters) }
\* OR: [{memberOf: {name: "Lads"}}, {memberOf: {name: "Devs"}}] and
\* OR: [{name: "Ann"}, {name: "Bob"}]
UserOrMemberOf ==
    Obj1(Key("OR"), ListValue(<<Obj1(Key("memberOf"), OrgNameEq),
                                Obj1(Key("memberOf"), Obj1(Key("name"), StringValue("Devs")))>>))
UserOrName ==
    Obj1(Key("OR"), ListValue(<<Obj1(Key("name"), StringValue("Ann")),
                                Obj1(Key("name"), StringValue("Bob"))>>))
UserArgs ==
    { <<>>, <<Where(Obj1(Key("name"), StringValue("Ann")))>>,
      <<Where(Obj1(Key("memberOf"), OrgNameEq))>>,
      <<Where(Obj1(<<"tenantIds", "INCLUDES">>, StringValue("t1")))>>,
      <<Where(UserOrMemberOf)>>, <<Where(UserOrName)>>,
      <<Where(Obj2(Key("name"), StringValue("Ann"), Key("memberOf"), OrgNameEq))>> }

TenantInputs ==
    { Doc(t, OrganizationsDoc(args), "organizations") :
          t \in BOOLEAN, args \in OrganizationArgs }
    \cup { Input(t, OrganizationsDoc(<<Where(Variable("where"))>>), "organizations", <<>>,
                 [where |-> AstToRuntime(OrgFilters[i])]) :
          t \in BOOLEAN, i \in 1..Len(OrgFilters) }
    \cup { Doc(t, UsersDoc(args), "users") : t \in BOOLEAN, args \in UserArgs }
    \cup { Doc(t, OrganizationsDoc(<<Argument("options", Obj1(Key("limit"), IntValue("5"))),
                                     Where(OrgNameEq)>>), "organizations") : t \in BOOLEAN }

\* one where key for every operator of the switch, and keys whose suffix is
\* none of them; on a MATCH root as a literal and as a variable, on a root
\* with a cypher directive, and on a relationship field
OperatorKeys == Operators \cup {<<"LIKE">>, <<"STARTS", "WITH">>}
OperatorValue(op) ==
    IF op \in {<<"IN">>, <<"NOT", "IN">>} THEN Strings2("a", "b") ELSE StringValue("x")
OperatorWhere(op) == Obj1(<<"name">> \o op, OperatorValue(op))
OperatorInputs ==
    { Doc(FALSE, RootDoc("baseAgreements", <<Where(OperatorWhere(op))>>, <<Leaf("id")>>),
          "baseAgreements") : op \in OperatorKeys }
    \cup { Input(FALSE, RootDoc("baseAgreements", <<Where(Variable("where"))>>, <<Leaf("id")>>),
                 "baseAgreements", <<>>, [where |-> AstToRuntime(OperatorWhere(op))])
           : op \in OperatorKeys }
    \cup { Doc(FALSE, RootDoc("myOrganization", <<Where(OperatorWhere(<<"LIKE">>))>>,
                              <<Leaf("id")>>), "myOrganization"),
           Doc(FALSE, RootDoc("baseAgreements",
                              <<Where(Obj1(<<"counterparties", "LIKE">>, OrgMembersEq))>>,
                              <<Leaf("id")>>), "baseAgreements") }

\* options of the root field, as a literal and as a variable: sort as a list
\* of one or two objects or as one object of two keys, offset and limit
\* absent, zero or positive; options on a field below the root and on a root
\* with a cypher directive
SortChoices ==
    { <<>>,
      <<ObjectField(Key("sort"), ListValue(<<Obj1(Key("name"), EnumValue("DESC"))>>))>>,
      <<ObjectField(Key("sort"), ListValue(<<Obj1(Key("name"), EnumValue("DESC")),
                                             Obj1(Key("id"), EnumValue("ASC"))>>))>>,
      <<ObjectField(Key("sort"), Obj2(Key("name"), EnumValue("ASC"),
                                      Key("id"), EnumValue("DESC")))>> }
OffsetChoices ==
    { <<>>, <<ObjectField(Key("offset"), IntValue("0"))>>,
      <<ObjectField(Key("offset"), IntValue("2"))>>, <<ObjectField(Key("offset"), NullValue)>> }
LimitChoices ==
    { <<>>, <<ObjectField(Key("limit"), IntValue("0"))>>,
      <<ObjectField(Key("limit"), IntValue("5"))>> }
OptionsChoices ==
    { ObjectValue(s \o o \o l) : s \in SortChoices, o \in OffsetChoices, l \in LimitChoices }
DocNestedOptions ==
    RootDoc("baseAgreements", <<Argument("options", Obj1(Key("limit"), IntValue("5")))>>,
            <<Leaf("id"),
              Field("counterparties", "",
                    <<Argument("options",
                               ObjectValue(<<ObjectField(Key("sort"), Obj1(Key("name"), EnumValue("DESC"))),
                                             ObjectField(Key("offset"), IntValue("0")),
                                             ObjectField(Key("limit"), IntValue("1"))>>))>>,
                    <<Leaf("id")>>)>>)
OptionsInputs ==
    { Doc(FALSE, RootDoc("baseAgreements", <<Argument("options", o)>>, <<Leaf("id")>>),
          "baseAgreements") : o \in OptionsChoices }
    \cup { Input(FALSE, RootDoc("baseAgreements", <<Argument("options", Variable("options"))>>,
                                <<Leaf("id")>>),
                 "baseAgreements", <<>>, [options |-> AstToRuntime(o)]) : o \in OptionsChoices }
    \cup { Doc(FALSE, DocNestedOptions, "baseAgreements"),
           Doc(FALSE, RootDoc("myOrganization",
                              <<Argument("options", Obj2(Key("offset"), IntValue("0"),
                                                         Key("limit"), IntValue("5")))>>,
                              <<Leaf("id")>>), "myOrganization") }

\* operations whose root selection set holds the resolved field twice, under
\* two aliases, and only inside a fragment spread
RootSelectionInputs ==
    { Doc(FALSE, OperationDefinition(<<Field("baseAgreements", "first", <<>>, <<Leaf("id")>>),
                                       Field("baseAgreements", "second", <<>>, <<Leaf("name")>>)>>),
          "baseAgreements"),
      Input(FALSE, OperationDefinition(<<FragmentSpread("RootFields")>>), "baseAgreements",
            [RootFields |-> FragmentDefinition(<<Field("baseAgreements", "", <<>>,
                                                       <<Leaf("id")>>)>>)], <<>>) }

\* the values of a leaf: every kind of literal, and the runtime values of a
\* where variable, dates among them (one without a day)
DateObject(y, m, d) ==
    JsObject(<<JsEntry(Key("year"), JsNumber(y)), JsEntry(Key("month"), JsNumber(m)),
               JsEntry(Key("day"), JsNumber(d))>>)
LiteralValues ==
    { BooleanValue("true"), IntValue("5"), [kind |-> "FloatValue", value |-> "1.5"],
      StringValue("a"), EnumValue("RUNNING_TEST"), Strings2("a", "b"),
      ListValue(<<IntValue("1"), EnumValue("A"), BooleanValue("false")>>),
      Variable("v"), ListValue(<<Variable("v"), IntValue("1")>>) }
RuntimeValues ==
    { JsNumber("5"), JsBoolean("true"), JsString("a"),
      JsArray(<<JsString("a"), JsString("b")>>),
      JsArray(<<JsNumber("1"), JsBoolean("false")>>),
      DateObject("2024", "1", "5"), DateObject("2024", "11", "25"),
      JsObject(<<JsEntry(Key("year"), JsNumber("2024")), JsEntry(Key("month"), JsNumber("1"))>>) }
ValueKeys == {Key("validFrom"), <<"validFrom", "GTE">>}
ValueInputs ==
    { Doc(FALSE, RootDoc("baseAgreements", <<Where(Obj1(k, v))>>, <<Leaf("id")>>),
          "baseAgreements") : k \in ValueKeys, v \in LiteralValues }
    \cup { Input(FALSE, RootDoc("baseAgreements", <<Where(Variable("where"))>>, <<Leaf("id")>>),
                 "baseAgreements", <<>>, [where |-> JsObject(<<JsEntry(k, r)>>)])
           : k \in ValueKeys, r \in RuntimeValues }

Inputs ==
    LiteralWhereInputs \cup VariableWhereInputs \cup StructuralInputs \cup TenantInputs
    \cup OperatorInputs \cup OptionsInputs \cup RootSelectionInputs \cup ValueInputs

-----------------------------------------------------------------------------
(* The traversal driver: GraphQlQueryTraverse.  The agenda is the call      *)
(* stack of walk: the steps still to run, the next one first.               *)

Step(op, node) == [op |-> op, node |-> node]

\* a callback made on the visitor: its name, the node it was given (kind,
\* name and alias, and whether it has a selection set) and, for visitField,
\* what it returned
Called(op, node, handled) ==
    [op |-> op, kind |-> node.kind,
     name |-> IF node.kind \in {"Field", "FragmentSpread"} THEN node.name
              ELSE IF node.kind = "InlineFragment" THEN node.typeCondition ELSE "",
     alias |-> IF node.kind = "Field" THEN node.alias ELSE "",
     hasSelectionSet |-> node.kind = "FragmentSpread" \/ node.hasSelectionSet,
     handled |-> handled]

\* walkSelectionSet with visitEndSelectionSet called before the selections are
\* walked
\* (at the operation only
\* the fields named info.fieldName), then visitEndSelectionSet(node)
walkSelectionSetEndFirst(node) ==
    IF ~node.hasSelectionSet THEN <<>>
    ELSE LET sels == node.selections
             kept == SelectSeqIdx(sels, [i \in 1..Len(sels) |->
                         node.kind # "OperationDefinition"
                         \/ (sels[i].kind = "Field" /\ sels[i].name = info.fieldName)], 1)
         IN  <<Step("visitEndSelectionSet", node)>>
             \o [i \in 1..Len(kept) |-> Step("walk", kept[i])]

\* walkSelectionSet(node): the walks of the selections (at the operation only
\* the fields named info.fieldName), then visitEndSelectionSet(node)
walkSelectionSet(node) ==
    IF ~node.hasSelectionSet THEN <<>>
    ELSE LET sels == node.selections
             kept == SelectSeqIdx(sels, [i \in 1..Len(sels) |->
                         node.kind # "OperationDefinition"
                         \/ (sels[i].kind = "Field" /\ sels[i].name = info.fieldName)], 1)
         IN  [i \in 1..Len(kept) |-> Step("walk", kept[i])]
             \o <<Step("visitEndSelectionSet", node)>>

Running == agenda # <<>> /\ error = ""

\* a callback threw: the walk is abandoned, the exception reaches the caller
Throw(msg) == /\ error' = msg
              /\ agenda' = <<>>

\* visitOperation
VisitOperationState ==
    /\ fieldPath' = <<>>
    /\ fieldNodePath' = <<>>
    /\ typePath' = <<"Query">>
    /\ listComprehensionFlagPath' = <<>>
    /\ level' = -1
    /\ buffer' = <<>>
    /\ tokenBuffer' = <<>>

\* walk, case OperationDefinition
WalkOperation ==
    /\ Running
    /\ Head(agenda).op = "walk" /\ Head(agenda).node.kind = "OperationDefinition"
    /\ VisitOperationState
    /\ agenda' = walkSelectionSet(Head(agenda).node) \o Tail(agenda)
    /\ calls' = <<Called("visitOperation", Head(agenda).node, FALSE)>>
    /\ UNCHANGED <<peer, schema, variables, tenant, info, searchConditionTrees, output, compiled, error>>

\* walk, case Field: visitField and, unless it is handled, the selection set
VisitField ==
    /\ Running
    /\ Head(agenda).op = "walk" /\ Head(agenda).node.kind = "Field"
    /\ \E node \in {Head(agenda).node} : \E r \in {VisitFieldResult(node)} :
           /\ calls' = Append(calls, Called("visitField", node, r.handled))
           /\ fieldPath' = r.fieldPath
           /\ fieldNodePath' = r.fieldNodePath
           /\ typePath' = r.typePath
           /\ listComprehensionFlagPath' = r.listComprehensionFlagPath
           /\ level' = r.level
           /\ tokenBuffer' = r.tokenBuffer
           /\ searchConditionTrees' = IF r.trees # <<>> THEN r.trees[1] ELSE searchConditionTrees
           /\ IF r.thrown # ""
              THEN Throw(r.thrown)
              ELSE /\ agenda' = (IF r.handled THEN <<>> ELSE walkSelectionSet(node))
                                \o <<Step("visitEndField", node)>> \o Tail(agenda)
                   /\ error' = error
    /\ UNCHANGED <<peer, schema, buffer, variables, tenant, info, output, compiled>>

\* visitEndField
VisitEndField ==
    /\ Running
    /\ Head(agenda).op = "visitEndField"
    /\ \E r \in {VisitEndFieldResult(Head(agenda).node)} :
           /\ fieldPath' = r.fieldPath
           /\ fieldNodePath' = r.fieldNodePath
           /\ typePath' = r.typePath
           /\ listComprehensionFlagPath' = r.listComprehensionFlagPath
           /\ level' = r.level
           /\ tokenBuffer' = r.tokenBuffer
           /\ IF r.thrown # ""
              THEN Throw(r.thrown)
              ELSE agenda' = Tail(agenda) /\ error' = error
    /\ calls' = Append(calls, Called("visitEndField", Head(agenda).node, FALSE))
    /\ UNCHANGED <<peer, schema, buffer, variables, tenant, info, searchConditionTrees, output, compiled>>

\* visitEndSelectionSet
VisitEndSelectionSet ==
    /\ Running
    /\ Head(agenda).op = "visitEndSelectionSet"
    /\ \E r \in {VisitEndSelectionSetResult(Head(agenda).node)} :
           /\ tokenBuffer' = r.tokenBuffer
           /\ buffer' = r.buffer
    /\ agenda' = Tail(agenda)
    /\ calls' = Append(calls, Called("visitEndSelectionSet", Head(agenda).node, FALSE))
    /\ UNCHANGED <<peer, schema, fieldPath, fieldNodePath, typePath, listComprehensionFlagPath, level,
                   variables, tenant, info, searchConditionTrees, output, compiled, error>>

\* walk, case InlineFragment: visitInlineFragment and the selection set
VisitInlineFragment ==
    /\ Running
    /\ Head(agenda).op = "walk" /\ Head(agenda).node.kind = "InlineFragment"
    /\ LET node == Head(agenda).node
       IN  IF node.typeCondition = ""
           THEN /\ Throw("Type condition is not specified")
                /\ typePath' = typePath
           ELSE /\ typePath' = Append(typePath,
                                  IF isObjectType(node.typeCondition) THEN node.typeCondition
                                  ELSE "undefined")
                /\ agenda' = walkSelectionSet(node)
                             \o <<Step("visitEndInlineFragment", node)>> \o Tail(agenda)
                /\ error' = error
    /\ calls' = Append(calls, Called("visitInlineFragment", Head(agenda).node, FALSE))
    /\ UNCHANGED <<peer, schema, fieldPath, fieldNodePath, listComprehensionFlagPath, level, buffer,
                   tokenBuffer, variables, tenant, info, searchConditionTrees, output, compiled>>

\* visitEndInlineFragment
VisitEndInlineFragment ==
    /\ Running
    /\ Head(agenda).op = "visitEndInlineFragment"
    /\ typePath' = Pop(typePath)
    /\ agenda' = Tail(agenda)
    /\ calls' = Append(calls, Called("visitEndInlineFragment", Head(agenda).node, FALSE))
    /\ UNCHANGED <<peer, schema, fieldPath, fieldNodePath, listComprehensionFlagPath, level, buffer,
                   tokenBuffer, variables, tenant, info, searchConditionTrees, output,
                   compiled, error>>

\* walk, case FragmentSpread: the fragment's selection set in place
WalkFragmentSpread ==
    /\ Running
    /\ Head(agenda).op = "walk" /\ Head(agenda).node.kind = "FragmentSpread"
    /\ IF Head(agenda).node.name \in DOMAIN info.fragments
       THEN /\ agenda' = walkSelectionSet(info.fragments[Head(agenda).node.name])
                         \o Tail(agenda)
            /\ error' = error
       ELSE Throw("TypeError")
    /\ UNCHANGED <<calls, peer, schema, fieldPath, fieldNodePath, typePath, listComprehensionFlagPath, level,
                   buffer, tokenBuffer, variables, tenant, info, searchConditionTrees,
                   output, compiled>>

\* compile(), called once the walk has returned
Compile ==
    /\ agenda = <<>> /\ error = ""
    /\ compiled < MaxCompiles
    /\ \E b \in {CompileBuffer} :
           /\ buffer' = b
           /\ output' = Join(b, S(" "))
    /\ tokenBuffer' = <<>>
    /\ compiled' = compiled + 1
    /\ UNCHANGED <<calls, peer, schema, fieldPath, fieldNodePath, typePath, listComprehensionFlagPath, level,
                   variables, tenant, info, agenda, searchConditionTrees, error>>

-----------------------------------------------------------------------------
(* Two calls of the resolver.  Each call constructs its own compiler and   *)
(* its own traversal; the schema and the directive index are the only      *)
(* objects both read.  The callbacks of the two walks may run in any order.*)

\* the resolver is called once
NoPeer == [none |-> TRUE]

\* the fields of a compiler and of its traversal after construction
NewCompiler(input) ==
    [fieldPath |-> <<>>, fieldNodePath |-> <<>>, typePath |-> <<"Query">>,
     listComprehensionFlagPath |-> <<>>, level |-> -1, buffer |-> <<>>, tokenBuffer |-> <<>>,
     variables |-> input.variables, tenant |-> input.tenant,
     info |-> [fieldName |-> input.fieldName, operation |-> input.operation,
               fragments |-> input.fragments],
     agenda |-> <<Step("walk", input.operation)>>,
     searchConditionTrees |-> <<>>, output |-> <<>>, compiled |-> 0, error |-> "",
     calls |-> <<>>]

\* the fields of the instance whose callbacks run, with one of them kept in
\* one place for both instances
OwnStateWithoutFlags ==
    [fieldPath |-> fieldPath, fieldNodePath |-> fieldNodePath, typePath |-> typePath,
     listComprehensionFlagPath |-> <<>>, level |-> level,
     buffer |-> buffer, tokenBuffer |-> tokenBuffer, variables |-> variables,
     tenant |-> tenant, info |-> info, agenda |-> agenda,
     searchConditionTrees |-> searchConditionTrees, output |-> output,
     compiled |-> compiled, error |-> error, calls |-> calls]

\* the fields of the instance whose callbacks run: every field of the
\* compiler and of the traversal belongs to the instance
OwnState ==
    [fieldPath |-> fieldPath, fieldNodePath |-> fieldNodePath, typePath |-> typePath,
     listComprehensionFlagPath |-> listComprehensionFlagPath, level |-> level,
     buffer |-> buffer, tokenBuffer |-> tokenBuffer, variables |-> variables,
     tenant |-> tenant, info |-> info, agenda |-> agenda,
     searchConditionTrees |-> searchConditionTrees, output |-> output,
     compiled |-> compiled, error |-> error, calls |-> calls]

\* the calls of the resolver that are run side by side
IsolationInputs ==
    { Doc(FALSE, DocMyOrganization, "myOrganization"),
      Doc(TRUE, UsersDoc(<<>>), "users"),
      Input(FALSE, RootDoc("baseAgreements", <<Where(Variable("where"))>>, <<Leaf("id")>>),
            "baseAgreements", <<>>, [where |-> AstToRuntime(OperatorWhere(<<"GTE">>))]) }

\* the next callback to run is one of the other instance
SwitchInstance ==
    /\ peer # NoPeer
    /\ peer' = OwnState
    /\ fieldPath' = peer.fieldPath
    /\ fieldNodePath' = peer.fieldNodePath
    /\ typePath' = peer.typePath
    /\ listComprehensionFlagPath' = peer.listComprehensionFlagPath
    /\ level' = peer.level
    /\ buffer' = peer.buffer
    /\ tokenBuffer' = peer.tokenBuffer
    /\ variables' = peer.variables
    /\ tenant' = peer.tenant
    /\ info' = peer.info
    /\ agenda' = peer.agenda
    /\ searchConditionTrees' = peer.searchConditionTrees
    /\ output' = peer.output
    /\ compiled' = peer.compiled
    /\ error' = peer.error
    /\ calls' = peer.calls
    /\ UNCHANGED schema

\* the other call has returned and the resolver is called again
CallResolverAgain ==
    /\ peer # NoPeer
    /\ peer.agenda = <<>>
    /\ \E input \in IsolationInputs : peer' = NewCompiler(input)
    /\ UNCHANGED <<schema, fieldPath, fieldNodePath, typePath, listComprehensionFlagPath, level,
                   buffer, tokenBuffer, variables, tenant, info, agenda, searchConditionTrees,
                   output, compiled, error, calls>>

Next ==
    \/ WalkOperation
    \/ VisitField
    \/ VisitEndField
    \/ VisitEndSelectionSet
    \/ VisitInlineFragment
    \/ VisitEndInlineFragment
    \/ WalkFragmentSpread
    \/ Compile
    \/ SwitchInstance
    \/ CallResolverAgain

\* new Compiler(schema, variables); new GraphQlQueryTraverse(info, compiler)
Init ==
    \E input \in Inputs :
        /\ schema = Schema
        /\ tenant = input.tenant
        /\ variables = input.variables
        /\ info = [fieldName |-> input.fieldName, operation |-> input.operation,
                   fragments |-> input.fragments]
        /\ agenda = <<Step("walk", input.operation)>>
        /\ fieldPath = <<>>
        /\ fieldNodePath = <<>>
        /\ typePath = <<"Query">>
        /\ listComprehensionFlagPath = <<>>
        /\ level = -1
        /\ buffer = <<>>
        /\ tokenBuffer = <<>>
        /\ searchConditionTrees = <<>>
        /\ output = <<>>
        /\ compiled = 0
        /\ error = ""
        /\ calls = <<>>
        /\ peer \in (IF input \in IsolationInputs
                     THEN { NewCompiler(other) : other \in IsolationInputs }
                     ELSE {NoPeer})

Spec == Init /\ [][Next]_vars

\* the callbacks of a walk: walk is synchronous, so once it is called each of
\* its callbacks follows the one before
WalkStep ==
    \/ WalkOperation
    \/ VisitField
    \/ VisitEndField
    \/ VisitEndSelectionSet
    \/ VisitInlineFragment
    \/ VisitEndInlineFragment
    \/ WalkFragmentSpread

\* weak fairness of the callbacks of the walk, WF_vars(WalkStep), written out:
\* a callback is enabled exactly while the walk is running
WalkFairness == ([]<>(~Running)) \/ ([]<><<WalkStep>>_vars)

FairSpec == Spec /\ WalkFairness

-----------------------------------------------------------------------------
(* Properties of the tenant extension.                                      *)

\* the field on top of the paths has its own token on top of the token buffer:
\* the state visitField leaves, and again once its selection set is closed
CurrentFieldEmitted ==
    /\ error = ""
    /\ fieldPath # <<>>
    /\ Len(fieldPath) = level + 1
    /\ tokenBuffer # <<>>
    /\ Last(tokenBuffer).level = level

\* the field whose where argument filters the current expression: the
\* connection field when the current field is its edges
FilteredIndex ==
    IF Last(fieldPath).name = "edges" /\ Len(fieldPath) > 1
    THEN Len(fieldPath) - 1 ELSE Len(fieldPath)
FilteredFieldNode == fieldNodePath[FilteredIndex]
FilteredFieldType == fieldPath[FilteredIndex].type

NodeTargetType(t) ==
    IF ConnectionSuffixRegex(t) THEN schema[schema[t]["edges"].type]["node"].type ELSE t

TenantEligible(fieldType, fieldName) ==
    /\ fieldType \in DOMAIN schema
    /\ \/ "tenantId" \in DOMAIN schema[NodeTargetType(fieldType)]
       \/ "tenantIds" \in DOMAIN schema[NodeTargetType(fieldType)]
    /\ fieldName \notin
         {"sentBy", "includedIn", "updatedBy", "proposedBy", "creator", "mappingInstances"}
    /\ fieldType # "FlexEntity"

CompiledAsRoot == level = 0
CompiledAsMatchRoot == level = 0 /\ getCypherDirective(typePath, fieldPath) = <<>>
CompiledAsRelationshipExpansion ==
    /\ level > 0
    /\ isObjectType(Last(fieldPath).type)
    /\ getCypherDirective(typePath, fieldPath) = <<>>
    /\ getRelationshipDirective(typePath, fieldPath) # <<>>

MentionsTenant(strings) ==
    \E i \in 1..Len(strings) : \E j \in 1..Len(strings[i]) :
        strings[i][j] = "cypherParams.tenantId"

\* C1 as stated: with the tenant compiler, every tenant-eligible field
\* compiled as the root field or as a relationship expansion has emitted a
\* predicate that refers to $cypherParams.tenantId
C1_AsStated ==
    (/\ tenant
     /\ CurrentFieldEmitted
     /\ (CompiledAsRoot \/ CompiledAsRelationshipExpansion)
     /\ TenantEligible(FilteredFieldType, FilteredFieldNode.name))
    => MentionsTenant(Last(tokenBuffer).value)

\* C1: with the tenant compiler, every tenant-eligible field compiled as a
\* root field in the MATCH form (no cypher directive on it) or as a
\* relationship expansion has emitted a predicate, inline or in WHERE, that
\* refers to $cypherParams.tenantId
C1_TenantPredicateEmitted ==
    (/\ tenant
     /\ CurrentFieldEmitted
     /\ (CompiledAsMatchRoot \/ CompiledAsRelationshipExpansion)
     /\ TenantEligible(FilteredFieldType, FilteredFieldNode.name))
    => MentionsTenant(Last(tokenBuffer).value)

\* a connection with a where argument of its own has been expanded at its
\* edges with the tenant predicate
C1_Witness ==
    /\ tenant
    /\ CurrentFieldEmitted
    /\ CompiledAsRelationshipExpansion
    /\ Last(fieldPath).name = "edges"
    /\ FilteredFieldNode.arguments # <<>>
    /\ TenantEligible(FilteredFieldType, FilteredFieldNode.name)
    /\ MentionsTenant(Last(tokenBuffer).value)

\* the where argument the tenant extension is to build
ExpectedTenantPredicate(fieldType) ==
    IF "tenantId" \in DOMAIN schema[NodeTargetType(fieldType)]
    THEN Obj1(<<"tenantId">>, Variable("cypherParams.tenantId"))
    ELSE Obj1(<<"tenantIds", "INCLUDES">>, Variable("cypherParams.tenantId"))

ExpectedNodeCondition(fieldType, fieldName) ==
    IF ConnectionSuffixRegex(fieldName)
    THEN Obj1(<<"node">>, ExpectedTenantPredicate(fieldType))
    ELSE ExpectedTenantPredicate(fieldType)

ExpectedArgs(args, fieldType, fieldName) ==
    IF \E i \in 1..Len(args) : args[i].name = "where"
    THEN [i \in 1..Len(args) |->
            IF args[i].name = "where"
            THEN Argument("where",
                     Obj1(<<"AND">>, ListValue(<<args[i].value,
                                                ExpectedNodeCondition(fieldType, fieldName)>>)))
            ELSE args[i]]
    ELSE Append(args, Argument("where", ExpectedNodeCondition(fieldType, fieldName)))

\* C2: for every tenant-eligible field on the path the tenant extension
\* rewrites the arguments to the expected ones (tenantId or tenantIds_INCLUDES
\* predicate, under node exactly for a ...Connection field, as the second
\* operand of an AND list after the where of the query, the other arguments
\* as they are), and the condition trees are the base compiler's trees of the
\* rewritten arguments
C2_WhereRewritten ==
    tenant =>
        \A i \in 1..Len(fieldPath) :
            TenantEligible(fieldPath[i].type, fieldNodePath[i].name) =>
                /\ TenantNewArgs(fieldNodePath[i].arguments, fieldPath[i].type,
                                 fieldNodePath[i].name)
                   = ExpectedArgs(fieldNodePath[i].arguments, fieldPath[i].type,
                                  fieldNodePath[i].name)
                /\ createConditionTreesByField(fieldNodePath[i].arguments,
                                               fieldPath[i].type, fieldNodePath[i].name)
                   = BaseCreateConditionTreesByField(
                         ExpectedArgs(fieldNodePath[i].arguments, fieldPath[i].type,
                                      fieldNodePath[i].name),
                         fieldPath[i].type, fieldNodePath[i].name)

\* the tenant compiler has compiled a root field that has an options argument
\* and a where argument
C2_Witness ==
    /\ tenant
    /\ error = ""
    /\ level = 0
    /\ Len(fieldNodePath) = 1
    /\ Len(fieldNodePath[1].arguments) = 2
    /\ fieldNodePath[1].arguments[1].name = "options"
    /\ fieldNodePath[1].arguments[2].name = "where"
    /\ TenantEligible(fieldPath[1].type, fieldNodePath[1].name)
    /\ searchConditionTrees
       = BaseCreateConditionTreesByField(
             ExpectedArgs(fieldNodePath[1].arguments, fieldPath[1].type,
                          fieldNodePath[1].name),
             fieldPath[1].type, fieldNodePath[1].name)
    /\ MentionsTenant(Last(tokenBuffer).value)

\* the token on top holds what visitField pushed and no projection of a
\* selection set yet
FreshToken ==
    \A i \in 1..Len(Last(tokenBuffer).value) :
        Last(tokenBuffer).value[i] \notin {S("{"), S("}")}

\* C3: for a field whose target type declares neither tenantId nor tenantIds,
\* or whose type is FlexEntity, or whose name is on the deny-list, the tenant
\* compiler builds exactly the condition trees of the base compiler for the
\* same arguments, and the expression it emits for the field does not refer
\* to $cypherParams.tenantId
C3_ExemptFieldsUnfiltered ==
    tenant =>
        /\ \A i \in 1..Len(fieldPath) :
              (isObjectType(fieldPath[i].type)
               /\ ~TenantEligible(fieldPath[i].type, fieldNodePath[i].name)) =>
                  createConditionTreesByField(fieldNodePath[i].arguments,
                                              fieldPath[i].type, fieldNodePath[i].name)
                  = BaseCreateConditionTreesByField(fieldNodePath[i].arguments,
                                                    fieldPath[i].type, fieldNodePath[i].name)
        /\ (/\ CurrentFieldEmitted
            /\ CompiledAsMatchRoot \/ CompiledAsRelationshipExpansion
            /\ ~TenantEligible(FilteredFieldType, FilteredFieldNode.name)
            /\ FreshToken)
           => ~MentionsTenant(Last(tokenBuffer).value)

\* the tenant compiler has expanded the deny-listed relationship creator,
\* whose target type User declares tenantIds, without a tenant predicate
C3_Witness ==
    /\ tenant
    /\ CurrentFieldEmitted
    /\ CompiledAsRelationshipExpansion
    /\ Last(fieldNodePath).name = "creator"
    /\ "tenantIds" \in DOMAIN schema[Last(fieldPath).type]
    /\ FreshToken
    /\ ~MentionsTenant(Last(tokenBuffer).value)

-----------------------------------------------------------------------------
(* Properties of the traversal state.                                       *)

\* the inline fragments the walk is inside of: those whose
\* visitEndInlineFragment is still to come
OpenInlineFragments ==
    Cardinality({i \in 1..Len(agenda) : agenda[i].op = "visitEndInlineFragment"})

\* C4 as stated: between callbacks the three field stacks have one length and
\* typePath is one longer, with Query at its bottom
C4_AsStated ==
    /\ Len(fieldPath) = Len(fieldNodePath)
    /\ Len(fieldPath) = Len(listComprehensionFlagPath)
    /\ Len(typePath) = Len(fieldPath) + 1
    /\ typePath[1] = "Query"

\* C4: between callbacks the three field stacks have one length (also after
\* __typename and after a handled field), Query is at the bottom of typePath,
\* and while the walk goes on typePath is longer than fieldPath by one plus
\* the number of inline fragments the walk is inside of
C4_PathsAligned ==
    /\ Len(fieldPath) = Len(fieldNodePath)
    /\ Len(fieldPath) = Len(listComprehensionFlagPath)
    /\ typePath # <<>> /\ typePath[1] = "Query"
    /\ error = "" => Len(typePath) = Len(fieldPath) + 1 + OpenInlineFragments

\* inside an inline fragment, after its __typename, a relationship field has
\* been visited
C4_Witness ==
    /\ error = ""
    /\ OpenInlineFragments = 1
    /\ Len(fieldPath) = 2
    /\ Last(fieldPath).name = "counterparties"
    /\ Len(typePath) = 4
    /\ \E i \in 1..Len(tokenBuffer) : tokenBuffer[i].value[1] = S("__typename")

-----------------------------------------------------------------------------
(* Properties of the emitted variables.                                     *)

\* the closest enclosing field of the current field whose name is neither
\* node nor ends in Connection (0 when there is none)
BindsVariable(i) == fieldPath[i].name # "node" /\ ~ConnectionSuffixRegex(fieldPath[i].name)
EnclosingIndex ==
    IF \E i \in 1..(Len(fieldPath) - 1) : BindsVariable(i)
    THEN CHOOSE i \in 1..(Len(fieldPath) - 1) :
            BindsVariable(i) /\ \A j \in (i + 1)..(Len(fieldPath) - 1) : ~BindsVariable(j)
    ELSE 0

\* the own token of the field at index i of the path: the last token of its
\* level
OwnToken(i) ==
    tokenBuffer[CHOOSE k \in 1..Len(tokenBuffer) :
                   /\ tokenBuffer[k].level = i - 1
                   /\ \A m \in (k + 1)..Len(tokenBuffer) : tokenBuffer[m].level # i - 1]

IndexOf(strings, str) ==
    CHOOSE k \in 1..Len(strings) : strings[k] = str /\ \A m \in 1..(k - 1) : strings[m] # str

\* the node variable a token binds: UNWIND ... as v; alias : [ v in ...;
\* MATCH ( v : T ...; alias : [ (source) -[...]-> ( v : T ...
BoundVariable(strings) ==
    IF strings[1] = S("UNWIND") THEN strings[IndexOf(strings, S("as")) + 1]
    ELSE IF Len(strings) >= 5 /\ strings[3] = S("[") /\ strings[5] = S("in") THEN strings[4]
    ELSE strings[IndexOf(strings, S("(")) + 1]

\* the variable a token reads its parent from: the source of a relationship
\* comprehension, the this of a cypher call, the value of a node field
IsRelationshipComprehension(strings) ==
    Len(strings) >= 4 /\ strings[3] = S("[") /\ Len(strings[4]) = 4 /\ strings[4][1] = "("
IsCypherCall(strings) ==
    Len(strings) >= 9 /\ strings[3] = S("apoc.cypher.runFirstColumn(")
IsCypherComprehension(strings) ==
    Len(strings) >= 12 /\ strings[3] = S("[") /\ strings[5] = S("in")
ReadsVariable(strings) ==
    IsRelationshipComprehension(strings) \/ IsCypherCall(strings)
    \/ IsCypherComprehension(strings) \/ Last(fieldPath).name = "node"
SourceVariable(strings) ==
    IF IsRelationshipComprehension(strings) THEN <<strings[4][2], strings[4][3]>>
    ELSE IF IsCypherCall(strings) THEN strings[9]
    ELSE IF IsCypherComprehension(strings) THEN strings[12]
    ELSE strings[3]

Adjacent(pieces, a, b) == \E k \in 1..(Len(pieces) - 1) : pieces[k] = a /\ pieces[k + 1] = b

\* C5: outside inline fragments, the source variable of a relationship
\* comprehension, the this of a cypher call and the value of a node field are
\* the variable bound by the closest enclosing field that is neither node
\* nor a connection; the compiled test query names neither treatment3 nor
\* preparation3
C5_SourceIsClosestBoundVariable ==
    /\ (/\ CurrentFieldEmitted
        /\ OpenInlineFragments = 0
        /\ EnclosingIndex > 0
        /\ ReadsVariable(Last(tokenBuffer).value))
       => SourceVariable(Last(tokenBuffer).value)
          = BoundVariable(OwnToken(EnclosingIndex).value)
    /\ (compiled > 0 /\ info.operation = DocVariableNames)
       => /\ ~Adjacent(output, "treatment", "3")
          /\ ~Adjacent(output, "preparation", "3")

\* under connection -> edges -> node the relationship regulatedBy has been
\* expanded from the variable the edges bound
C5_Witness ==
    /\ CurrentFieldEmitted
    /\ OpenInlineFragments = 0
    /\ Len(fieldPath) = 5
    /\ fieldPath[3].name = "edges" /\ fieldPath[4].name = "node"
    /\ Last(fieldPath).name = "regulatedBy"
    /\ EnclosingIndex = 3
    /\ SourceVariable(Last(tokenBuffer).value) = <<"treatment", "2">>
    /\ BoundVariable(OwnToken(3).value) = <<"treatment", "2">>

-----------------------------------------------------------------------------
(* Properties of the emitted filter.                                        *)

\* the root field has been emitted in the MATCH form
RootMatchEmitted ==
    /\ error = ""
    /\ fieldPath # <<>>
    /\ tokenBuffer # <<>>
    /\ tokenBuffer[1].level = 0
    /\ tokenBuffer[1].value # <<>>
    /\ tokenBuffer[1].value[1] = S("MATCH")

\* the condition trees of the root field, and the strings of MATCH up to
\* RETURN: the node pattern and the WHERE clause
RootTrees ==
    createConditionTreesByField(fieldNodePath[1].arguments, fieldPath[1].type,
                                fieldNodePath[1].name)
RootHead ==
    SubSeq(tokenBuffer[1].value, 1, IndexOf(tokenBuffer[1].value, S("RETURN")) - 1)

\* an equality-only leaf with a scalar value
PlainLeaf(c) ==
    /\ ~c.isOr /\ ~c.isGroup
    /\ c.nested = <<>>
    /\ c.operator = <<>>
    /\ c.property # ""
    /\ c.value.kind = "scalar"

SeqToSet(seq) == {seq[i] : i \in 1..Len(seq)}

\* the leaves no OR stands above: those of the matched node and those of the
\* nested relationship filters
RECURSIVE LeavesOutsideOr(_)
LeavesOutsideOr(trees) ==
    UNION { IF trees[i].isOr \/ trees[i].isGroup THEN {}
            ELSE IF trees[i].nested # <<>> THEN LeavesOutsideOr(trees[i].nested)
            ELSE {trees[i]} : i \in 1..Len(trees) }

\* the leaves of the operands of the ORs on the matched node; an operand
\* that holds a relationship filter is not emitted as a property condition
OrOperandLeaves(trees) ==
    UNION { IF ~trees[i].isOr THEN {}
            ELSE UNION { IF isRelationshipCondition(trees[i].nested[g]) THEN {}
                         ELSE { c \in SeqToSet(trees[i].nested[g].nested) : c.nested = <<>> }
                         : g \in 1..Len(trees[i].nested) }
            : i \in 1..Len(trees) }

RECURSIVE HasOr(_)
HasOr(trees) ==
    \E i \in 1..Len(trees) : trees[i].isOr \/ HasOr(trees[i].nested)

\* k: v is an entry of a property map among the strings
IsMap(str) == Len(str) > 1 /\ str[1] = "{"
HasEntry(str, c) ==
    \E j \in 1..Len(str) :
        /\ j + 1 + Len(c.value.items[1]) <= Len(str)
        /\ SubSeq(str, j, j + 1 + Len(c.value.items[1]))
           = <<c.property, ": ">> \o c.value.items[1]
InNodeMap(strings, c) == Len(strings) >= 6 /\ IsMap(strings[6]) /\ HasEntry(strings[6], c)
InSomeMap(strings, c) == \E i \in 1..Len(strings) : IsMap(strings[i]) /\ HasEntry(strings[i], c)

\* X.k = v is a predicate among the strings
EqualityPredicates(strings, c) ==
    { k \in 1..(Len(strings) - 2) :
        /\ Len(strings[k]) >= 2
        /\ strings[k][Len(strings[k]) - 1] = "."
        /\ strings[k][Len(strings[k])] = c.property
        /\ strings[k + 1] = S("=")
        /\ strings[k + 2] = c.value.items[1] }

HasEqualsSuffix(trees) == \E c \in LeavesOutsideOr(trees) : c.operator = <<"EQUALS">>

RootVisited == fieldNodePath # <<>> /\ isObjectType(fieldPath[1].type)
RootWhere == FindArgument(fieldNodePath[1].arguments, "where")
Resolve(v) ==
    IF "kind" \in DOMAIN v /\ v.kind = "Variable" THEN VariableValue(v.name) ELSE v
FromVariable(v) == "kind" \in DOMAIN v /\ v.kind = "Variable"
EntriesOf(v) ==
    LET r == Resolve(v)
    IN  IF "kind" \in DOMAIN r
        THEN IF r.kind = "ObjectValue" THEN SeqToSet(r.fields) ELSE {}
        ELSE IF r.t = "object" THEN SeqToSet(r.entries) ELSE {}
RootEntries == IF RootWhere = <<>> THEN {} ELSE EntriesOf(RootWhere[1].value)
IsFieldKey(name) == name[1] \notin {"OR", "AND", "node", "edge"}

\* the filter under key (node or edge) of the connection field named
\* parentPropertyName has its conditions among conds, built with parentType
RoutedTo(sub, conds, parentType, parentPropertyName, isRelationship) ==
    \A l \in EntriesOf(sub.value) :
        /\ IsFieldKey(l.name) =>
              \E d \in SeqToSet(conds) :
                  /\ d.property = l.name[1] /\ d.operator = Tail(l.name)
                  /\ d.parentType = parentType
                  /\ d.parentPropertyName = parentPropertyName
                  /\ d.isRelationship = isRelationship
        /\ l.name = <<"OR">> =>
              \E d \in SeqToSet(conds) :
                  /\ d.isOr
                  /\ d.parentType = parentType
                  /\ d.parentPropertyName = parentPropertyName

\* node and edge under the parent field of entry e are field names like any
\* other: a Condition whose property is the key, or the TypeError of the
\* lookup of a field the type does not have
OrdinaryKeys(e, conds, parentType) ==
    \A s \in EntriesOf(e.value) :
        s.name \in {<<"node">>, <<"edge">>} =>
            IF HasField(parentType, s.name[1])
            THEN \E d \in SeqToSet(conds) :
                    /\ d.property = s.name[1]
                    /\ d.parentType = parentType
                    /\ d.parentPropertyName = e.name[1]
            ELSE \E d \in SeqToSet(conds) : d.error = "TypeError"

\* C7: the filter of a field whose name ends in Connection, given as a
\* literal or as a variable: the conditions under node have the node target
\* type as parentType, those under edge the type of edges, and no Condition
\* is made for the keys node and edge themselves; under a field without the
\* suffix node and edge are looked up as fields of the parent's type
C7_NodeAndEdgeRouted ==
    RootVisited =>
        \A e \in RootEntries :
            (Len(e.name) = 1 /\ HasField(fieldPath[1].type, e.name[1])
             /\ isObjectType(schema[fieldPath[1].type][e.name[1]].type)) =>
                \E c \in SeqToSet(RootTrees) :
                    /\ c.property = e.name[1]
                    /\ IF ConnectionSuffixRegex(e.name[1])
                       THEN /\ \A s \in EntriesOf(e.value) :
                                  /\ s.name = <<"node">> =>
                                        RoutedTo(s, c.nested,
                                            getTargetIfConnectionType(
                                                schema[fieldPath[1].type][e.name[1]].type),
                                            e.name[1], FALSE)
                                  /\ s.name = <<"edge">> =>
                                        RoutedTo(s, c.nested,
                                            schema[schema[fieldPath[1].type][e.name[1]].type]
                                                  ["edges"].type,
                                            e.name[1], TRUE)
                                  /\ s.name = <<"edges">> =>
                                        \E d \in SeqToSet(c.nested) :
                                            /\ d.property = "edges"
                                            /\ OrdinaryKeys(s, d.nested,
                                                   schema[schema[fieldPath[1].type]
                                                          [e.name[1]].type]["edges"].type)
                            /\ \A d \in SeqToSet(c.nested) : d.property \notin {"node", "edge"}
                       ELSE OrdinaryKeys(e, c.nested, schema[fieldPath[1].type][e.name[1]].type)

\* a filter with both node and edge under counterpartiesConnection has been
\* analysed, from a variable
C7_Witness ==
    /\ RootVisited
    /\ RootWhere # <<>> /\ FromVariable(RootWhere[1].value)
    /\ ~HasError(RootTrees)
    /\ \E e \in RootEntries :
          /\ e.name = <<"counterpartiesConnection">>
          /\ \E s \in EntriesOf(e.value) : s.name = <<"node">> /\ EntriesOf(s.value) # {}
          /\ \E s \in EntriesOf(e.value) : s.name = <<"edge">> /\ EntriesOf(s.value) # {}

\* visitEndField is about to run for a field below the root that carries a
\* cypher or a relationship directive
ClosingDirectedField ==
    /\ Running
    /\ Head(agenda).op = "visitEndField"
    /\ level > 0
    /\ tryGetSystemFieldValue(Head(agenda).node, typePath) = <<>>
    /\ fieldPath # <<>>
    /\ \/ getCypherDirective(typePath, fieldPath) # <<>>
       \/ getRelationshipDirective(typePath, fieldPath) # <<>>

\* the field's own token before the call and after it
OwnTokenBefore == Last(tokenBuffer).value
OwnTokenAfter == Last(VisitEndFieldResult(Head(agenda).node).tokenBuffer).value
EndsWith(strings, suffix) ==
    /\ Len(strings) >= Len(suffix)
    /\ SubSeq(strings, Len(strings) - Len(suffix) + 1, Len(strings)) = suffix

\* C8 as stated: every directive field below the root is wrapped in [ ] with
\* no trailing [0] when its result is a list and ends with [0] when it is
\* single
C8_AsStated ==
    ClosingDirectedField =>
        IF Last(fieldPath).isList
        THEN /\ Len(OwnTokenAfter) >= 3 /\ OwnTokenAfter[3] = S("[")
             /\ EndsWith(OwnTokenAfter, <<S("]")>>)
        ELSE EndsWith(OwnTokenAfter, <<S("[0]")>>)

\* C8: a directive field of object type below the root is emitted as
\* alias : [ ... ] and visitEndField appends ] for a list result and ] [0] for
\* a single one to the field's own token, after the projection map; a
\* directive field of scalar type is emitted as the call with no [ ] around
\* it, followed by [0] iff its result is single, and visitEndField appends
\* nothing
C8_ClosersByResultType ==
    ClosingDirectedField =>
        /\ Last(tokenBuffer).level = level
        /\ Len(OwnTokenBefore) >= 3
        /\ OwnTokenBefore[1] = S(AliasOrName(Head(agenda).node))
        /\ OwnTokenBefore[2] = S(":")
        /\ IF isObjectType(Last(fieldPath).type)
           THEN /\ OwnTokenBefore[3] = S("[")
                /\ Head(agenda).node.hasSelectionSet => EndsWith(OwnTokenBefore, <<S("}")>>)
                /\ OwnTokenAfter = OwnTokenBefore \o
                       (IF Last(fieldPath).isList THEN <<S("]")>> ELSE <<S("]"), S("[0]")>>)
           ELSE /\ OwnTokenBefore[3] = S("apoc.cypher.runFirstColumn(")
                /\ OwnTokenAfter = OwnTokenBefore
                /\ EndsWith(OwnTokenAfter, <<S("[0]")>>) <=> ~Last(fieldPath).isList
                /\ \A i \in 1..Len(OwnTokenAfter) : OwnTokenAfter[i] \notin {S("["), S("]")}

\* visitEndField has closed a single-result comprehension below the root
\* after its projection map
C8_Witness ==
    /\ error = ""
    /\ tokenBuffer # <<>>
    /\ Last(tokenBuffer).level = level + 1
    /\ level >= 0
    /\ EndsWith(Last(tokenBuffer).value, <<S("}"), S("]"), S("[0]")>>)

\* a literal with no variable inside
RECURSIVE HasVariable(_)
HasVariable(node) ==
    CASE node.kind = "Variable" -> TRUE
      [] node.kind = "ObjectValue" ->
            \E i \in 1..Len(node.fields) : HasVariable(node.fields[i].value)
      [] node.kind = "ListValue" ->
            \E i \in 1..Len(node.values) : HasVariable(node.values[i])
      [] OTHER -> FALSE

\* Condition trees with null for the undefined value
RECURSIVE Nullish(_)
Nullish(trees) ==
    [i \in 1..Len(trees) |->
        [trees[i] EXCEPT !.value = IF @ = ValUndefined THEN ValNull ELSE @,
                         !.nested = Nullish(@)]]

\* the where literal of the root field, the trees built from it and the trees
\* built from the runtime value that stands for the same filter
LiteralRootWhere ==
    /\ RootVisited
    /\ RootWhere # <<>>
    /\ ~HasVariable(RootWhere[1].value)
TreesOfLiteral ==
    createConditionTrees(RootWhere[1].value, fieldPath[1].type, fieldNodePath[1].name)
TreesOfRuntimeValue ==
    createConditionTreesByObject(AstToRuntime(RootWhere[1].value), fieldPath[1].type,
                                 fieldNodePath[1].name)

\* C9 as stated: the Condition trees built from a where literal and from the
\* equivalent runtime value are identical (an undefined value and a null
\* value taken as the same), and neither is a thrown TypeError the other
\* path does not throw
C9_AsStated ==
    LiteralRootWhere => Nullish(TreesOfLiteral) = Nullish(TreesOfRuntimeValue)

\* the relationship paths in the order createWhereCondition emits them
\* (the OR paths, then the AND paths), and those of them it emits as an
\* existential expression
OrderedPaths(all) ==
    SelectSeqIdx(all, [i \in 1..Len(all) |-> PathHasOr(all[i])], 1)
    \o SelectSeqIdx(all, [i \in 1..Len(all) |-> ~PathHasOr(all[i])], 1)
IsExistentialPath(path) ==
    \E i \in 1..Len(path) :
        ~(path[i].isGroup \/ path[i].isOr \/ path[i].operator # <<>> \/ path[i].nested = <<>>)
ExistentialAmong(paths) ==
    SelectSeqIdx(paths, [i \in 1..Len(paths) |-> IsExistentialPath(paths[i])], 1)
ExistentialPaths ==
    CHOOSE paths \in
        { ExistentialAmong(ordered) : ordered \in
            { OrderedPaths(all) : all \in { AllPaths(trees) : trees \in {RootTrees} } } } : TRUE

\* the places of exists among the strings, the n-th of them, and the form
\* of the expression at a place
ExistsPlaces(strings) == { k \in 1..Len(strings) : strings[k] = S("exists") }
NthExists(places, n) ==
    CHOOSE k \in places : Cardinality({ j \in places : j < k }) = n - 1
EmittedFast(strings, k) == strings[k + 1] = S("(")
EmittedSlow(strings, k) ==
    /\ strings[k + 1] = S("{")
    /\ \E j \in (k + 1)..Len(strings) : strings[j] = S("WHERE")

\* no Condition of the path and no descendant of one carries an operator
RECURSIVE NoOperatorBelow(_)
NoOperatorBelow(trees) ==
    \A i \in 1..Len(trees) : trees[i].operator = <<>> /\ NoOperatorBelow(trees[i].nested)
OperatorFreeWithDescendants(path) ==
    \A i \in 1..Len(path) : path[i].operator = <<>> /\ NoOperatorBelow(path[i].nested)

\* no Condition of the path carries an operator, none of their children
\* does, and a child that has nested Conditions is no OR and has children
\* without operator
OperatorFreeTwoLevels(path) ==
    \A i \in 1..Len(path) :
        /\ path[i].operator = <<>>
        /\ \A c \in SeqToSet(path[i].nested) :
              /\ c.operator = <<>>
              /\ c.nested # <<>> =>
                    /\ ~c.isOr
                    /\ \A g \in SeqToSet(c.nested) : g.operator = <<>>

\* C10 as stated: a relationship path is emitted as exists( ... ) iff no
\* Condition on it and no descendant of one carries an operator, and as
\* exists { ... WHERE ... } otherwise
C10_AsStated ==
    RootMatchEmitted =>
        \A paths \in {ExistentialPaths} : \A head \in {RootHead} :
        \A places \in {ExistsPlaces(head)} :
            /\ Cardinality(places) = Len(paths)
            /\ \A n \in 1..Len(paths) :
               \A path \in {paths[n]} : \A k \in {NthExists(places, n)} :
                  /\ EmittedFast(head, k) <=> OperatorFreeWithDescendants(path)
                  /\ EmittedSlow(head, k) <=> ~OperatorFreeWithDescendants(path)

\* C10: a relationship path is emitted as exists( ... ) iff no Condition on it
\* carries an operator, no child of a Condition on it carries one, and every
\* such child that has nested Conditions is not an OR and has only children
\* without operator; every other relationship path is emitted as
\* exists { ... WHERE ... }
C10_FastIffOperatorFreeTwoLevels ==
    RootMatchEmitted =>
        \A paths \in {ExistentialPaths} : \A head \in {RootHead} :
        \A places \in {ExistsPlaces(head)} :
            /\ Cardinality(places) = Len(paths)
            /\ \A n \in 1..Len(paths) :
               \A path \in {paths[n]} : \A k \in {NthExists(places, n)} :
                  /\ EmittedFast(head, k) <=> OperatorFreeTwoLevels(path)
                  /\ EmittedSlow(head, k) <=> ~OperatorFreeTwoLevels(path)

\* a where input with a path in the fast form and a path in the slow form has
\* been emitted
C10_Witness ==
    /\ RootMatchEmitted
    /\ \E head \in {RootHead} : \E places \in {ExistsPlaces(head)} :
          /\ Cardinality(places) = Len(ExistentialPaths)
          /\ \E k \in places : EmittedFast(head, k)
          /\ \E k \in places : EmittedSlow(head, k)

-----------------------------------------------------------------------------
(* Properties of the existential expressions.                               *)

\* the strings of the n-th existential expression: from its exists up to the
\* next one
ExistsSegment(strings, places, n) ==
    SubSeq(strings, NthExists(places, n),
           IF n < Cardinality(places) THEN NthExists(places, n + 1) - 1 ELSE Len(strings))
FirstIndexOf(strings, str) ==
    CHOOSE k \in 1..Len(strings) : strings[k] = str /\ \A j \in 1..(k - 1) : strings[j] # str

\* the chain pattern of a segment and, for the slow form, the strings between
\* WHERE and the closing brace
ChainPattern(seg) ==
    IF seg[2] = S("(") THEN SubSeq(seg, 3, Len(seg))
    ELSE SubSeq(seg, 3, FirstIndexOf(seg, S("WHERE")) - 1)
SubqueryWhere(seg) ==
    SubSeq(seg, FirstIndexOf(seg, S("WHERE")) + 1, FirstIndexOf(seg, S("}")) - 1)

\* the Conditions of a path that stand for a relationship of the chain, and
\* the leaves below them
ChainConditions(path) == { path[i] : i \in { j \in 1..Len(path) : ~path[j].isOr /\ ~path[j].isGroup } }
EqualityLeavesOf(path) ==
    UNION { { c \in SeqToSet(h.nested) : PlainLeaf(c) } : h \in ChainConditions(path) }
OperatorLeavesOf(path) ==
    UNION { { c \in SeqToSet(h.nested) :
                c.nested = <<>> /\ c.operator # <<>> /\ ~c.isOr /\ ~c.isGroup }
            : h \in ChainConditions(path) }

HasMap(strings) == \E i \in 1..Len(strings) : IsMap(strings[i])
VariablesOf(strings) ==
    { i \in 1..Len(strings) : Len(strings[i]) >= 2 /\ strings[i][1] = "rel_" }
Mentions(strings, c) ==
    \E i \in 1..Len(strings) :
        /\ Len(strings[i]) >= 2
        /\ strings[i][Len(strings[i]) - 1] = "."
        /\ strings[i][Len(strings[i])] = c.property

\* the places of AND outside parentheses
Depth(strings, k) ==
    Cardinality({ j \in 1..(k - 1) : strings[j] = S("(") })
    - Cardinality({ j \in 1..(k - 1) : strings[j] = S(")") })
TopLevelAnds(strings) ==
    { k \in 1..Len(strings) : strings[k] = S("AND") /\ Depth(strings, k) = 0 }
TopLevelOperands(strings) ==
    { k \in 1..Len(strings) :
        /\ Depth(strings, k) = 0
        /\ strings[k] # S("AND")
        /\ (k = 1 \/ strings[k - 1] = S("AND")) }

\* C11 as stated: the chain pattern of a fast existential carries the
\* equality conditions as inline property maps; the chain pattern of a slow
\* existential carries pattern variables and no inline property map, its
\* property predicates standing in the WHERE of the subquery
C11_AsStated ==
    RootMatchEmitted =>
        \A paths \in {ExistentialPaths} : \A head \in {RootHead} :
        \A places \in {ExistsPlaces(head)} :
            Cardinality(places) = Len(paths) =>
                \A n \in 1..Len(paths) : \A seg \in {ExistsSegment(head, places, n)} :
                    IF seg[2] = S("(")
                    THEN \A c \in EqualityLeavesOf(paths[n]) : InSomeMap(ChainPattern(seg), c)
                    ELSE /\ VariablesOf(ChainPattern(seg)) # {}
                         /\ ~HasMap(ChainPattern(seg))

\* C11: in both forms the chain pattern carries the equality leaves of the
\* path's relationships as inline property maps; the fast form has no pattern
\* variable; the slow form has one relationship variable for each
\* relationship of the path, and the WHERE of its subquery holds the leaves
\* that carry an operator, its operands joined by AND, with no equality
\* predicate outside an OR group
C11_ExistentialForms ==
    RootMatchEmitted =>
        \A paths \in {ExistentialPaths} : \A head \in {RootHead} :
        \A places \in {ExistsPlaces(head)} :
            Cardinality(places) = Len(paths) =>
                \A n \in 1..Len(paths) : \A path \in {paths[n]} :
                \A seg \in {ExistsSegment(head, places, n)} :
                \A pattern \in {ChainPattern(seg)} :
                    /\ \A c \in EqualityLeavesOf(path) : InSomeMap(pattern, c)
                    /\ IF seg[2] = S("(")
                       THEN VariablesOf(pattern) = {}
                       ELSE \A where \in {SubqueryWhere(seg)} :
                            /\ Cardinality(VariablesOf(pattern))
                               = Cardinality({ i \in 1..Len(path) :
                                                 ~path[i].isOr /\ ~path[i].isGroup })
                            /\ \A c \in OperatorLeavesOf(path) : Mentions(where, c)
                            /\ Cardinality(TopLevelAnds(where)) + 1
                               = Cardinality(TopLevelOperands(where))
                            /\ \A k \in 1..Len(where) :
                                  where[k] = S("=") => Depth(where, k) > 0

\* a slow existential whose pattern carries an inline map and whose WHERE
\* holds an operator leaf has been emitted
C11_Witness ==
    /\ RootMatchEmitted
    /\ \E paths \in {ExistentialPaths} : \E head \in {RootHead} :
       \E places \in {ExistsPlaces(head)} :
          /\ Cardinality(places) = Len(paths)
          /\ \E n \in 1..Len(paths) : \E seg \in {ExistsSegment(head, places, n)} :
                /\ seg[2] = S("{")
                /\ HasMap(ChainPattern(seg))
                /\ EqualityLeavesOf(paths[n]) # {}
                /\ OperatorLeavesOf(paths[n]) # {}
                /\ SubqueryWhere(seg) # <<>>

(***************************************************************************)
(* Properties of the operator table                                        *)
(***************************************************************************)

\* the table of the operators: the Cypher symbol, the negated forms and the
\* form with its operands reversed
TableSymbol(op) ==
    CASE op \in {<<"EQUALS">>} -> "="
      [] op = <<"NOT">> -> "<>"
      [] op = <<"GT">> -> ">"
      [] op = <<"GTE">> -> ">="
      [] op = <<"LT">> -> "<"
      [] op = <<"LTE">> -> "<="
      [] op \in {<<"IN">>, <<"NOT", "IN">>, <<"INCLUDES">>} -> "IN"
      [] op \in {<<"CONTAINS">>, <<"NOT", "CONTAINS">>} -> "CONTAINS"
      [] op \in {<<"ENDS", "WITH">>, <<"NOT", "ENDS", "WITH">>} -> "ENDS WITH"
      [] op = <<"MATCHES">> -> "=~"
TableExpression(op, X, v) ==
    LET core == IF op = <<"INCLUDES">> THEN v \o <<S("IN"), X>>
                ELSE <<X, S(TableSymbol(op))>> \o v
    IN  IF op \in {<<"NOT", "IN">>, <<"NOT", "CONTAINS">>, <<"NOT", "ENDS", "WITH">>}
        THEN <<S("NOT"), S("(")>> \o core \o <<S(")")>>
        ELSE core
Occurs(strings, part) ==
    \E k \in 1..(Len(strings) - Len(part) + 1) : SubSeq(strings, k, k + Len(part) - 1) = part

\* the leaves of the matched node that carry an operator, and those whose
\* operator is none of the table
OperatorLeaves(trees) ==
    { c \in SeqToSet(trees) : ~c.isOr /\ ~c.isGroup /\ c.nested = <<>> /\ c.operator # <<>> }
UnknownLeaves(trees) == { c \in OperatorLeaves(trees) : c.operator \notin Operators }
RootHasCypher == FindDirective("Query", fieldNodePath[1].name, "cypher") # <<>>

\* the keys of the root where input whose suffix is none of the table
UnknownKeys ==
    { e \in RootEntries : IsFieldKey(e.name) /\ Tail(e.name) # <<>> /\ Tail(e.name) \notin Operators }

\* C12 as stated: the leaves are emitted as the table states, and any where
\* key whose suffix is not an operator of the table makes the compilation
\* fail
C12_AsStated ==
    /\ RootMatchEmitted =>
          \A trees \in {RootTrees} : \A head \in {RootHead} :
              \A c \in OperatorLeaves(trees) \ UnknownLeaves(trees) :
                  Occurs(head, TableExpression(c.operator,
                                   <<toCamelCase(c.parentType), "0", ".", c.property>>,
                                   ValueStrings(c.value)))
    /\ (RootVisited /\ UnknownKeys # {}) => error # ""

\* C12: a leaf of the matched node with one of the 14 operators is emitted in
\* the WHERE of MATCH as the table states; a where input that is compiled
\* (the root field has no cypher directive) and holds a leaf whose operator
\* is none of the table makes the compilation fail, and when that leaf is
\* the first fault met the error is the unknown-operator error, thrown with
\* the text of the operator of such a leaf
C12_OperatorTable ==
    /\ RootMatchEmitted =>
          \A trees \in {RootTrees} : \A head \in {RootHead} :
              \A c \in OperatorLeaves(trees) \ UnknownLeaves(trees) :
                  Occurs(head, TableExpression(c.operator,
                                   <<toCamelCase(c.parentType), "0", ".", c.property>>,
                                   ValueStrings(c.value)))
    /\ (RootVisited /\ ~RootHasCypher) =>
          \A trees \in {RootTrees} :
              (~HasError(trees) /\ UnknownLeaves(trees) # {}) =>
                  /\ error # ""
                  /\ \A w \in {createWhereCondition(trees, 0)} :
                        ThrownBy(w) = "Unknown operator" =>
                            /\ error = "Unknown operator"
                            /\ \E c \in UnknownLeaves(trees) :
                                  \E k \in 1..Len(w) :
                                      w[k] = ThrowToken("Unknown operator") \o c.operator

\* a NOT_IN leaf has been emitted negated, and a where input whose key ends
\* in an operator outside the table has made the compilation fail
C12_Witness ==
    \/ /\ RootMatchEmitted
       /\ \E c \in OperatorLeaves(RootTrees) : c.operator = <<"NOT", "IN">>
       /\ Occurs(RootHead, <<S("NOT"), S("("), <<"baseAgreement", "0", ".", "name">>, S("IN")>>)
    \/ /\ RootVisited /\ ~RootHasCypher
       /\ error = "Unknown operator"
       /\ \E c \in UnknownLeaves(RootTrees) : c.operator = <<"STARTS", "WITH">>

(***************************************************************************)
(* Properties of the options clause                                        *)
(***************************************************************************)

\* the options of a field read off its argument, literal or variable: the
\* entries of an object and the items of a list in their order, and the text
\* of a scalar
FieldsOf(v) ==
    LET r == Resolve(v)
    IN  IF "kind" \in DOMAIN r
        THEN IF r.kind = "ObjectValue" THEN r.fields ELSE <<>>
        ELSE IF r.t = "object" THEN r.entries ELSE <<>>
ItemsOf(v) ==
    IF "kind" \in DOMAIN v
    THEN IF v.kind = "ListValue" THEN v.values ELSE <<v>>
    ELSE IF v.t = "array" THEN v.items ELSE <<v>>
TextOf(v) == IF "kind" \in DOMAIN v THEN v.value ELSE v.v
IsNullish(v) == IF "kind" \in DOMAIN v THEN v.kind = "NullValue" ELSE v.t \in {"null", "undefined"}
OptionNamed(arg, name) ==
    LET fs == FieldsOf(arg.value)
    IN  SelectSeqIdx(fs, [i \in 1..Len(fs) |-> fs[i].name = <<name>>], 1)

\* ORDER BY <rootVar>.<key> <dir>, ... in the order the sort keys are given
SortKeys(arg) ==
    LET sort == OptionNamed(arg, "sort")
        objs == IF sort = <<>> THEN <<>> ELSE ItemsOf(sort[1].value)
    IN  Flat([i \in 1..Len(objs) |-> FieldsOf(objs[i])])
ExpectedOrderBy(arg, rootVar) ==
    LET keys == SortKeys(arg)
    IN  IF keys = <<>> THEN <<>>
        ELSE <<S("ORDER BY")>>
             \o Intersperse([i \in 1..Len(keys) |->
                               rootVar \o <<".", keys[i].name[1], " ", TextOf(keys[i].value)>>],
                            S(","))
\* SKIP <offset> when offset is set
ExpectedSkip(arg) ==
    LET offset == OptionNamed(arg, "offset")
    IN  IF offset = <<>> \/ IsNullish(offset[1].value) THEN <<>>
        ELSE <<S("SKIP"), S(TextOf(offset[1].value))>>
\* the LIMIT part: nothing, or LIMIT <limit> of the limit given
LimitParts(arg) ==
    LET limit == OptionNamed(arg, "limit")
    IN  {<<>>} \cup (IF limit = <<>> \/ IsNullish(limit[1].value) THEN {}
                     ELSE {<<S("LIMIT"), S(TextOf(limit[1].value))>>})
OptionKeywords == {S("ORDER BY"), S("SKIP"), S("LIMIT")}

\* visitEndField is about to run for the root field, for a field below it
ClosingRootField == Running /\ Head(agenda).op = "visitEndField" /\ level = 0
ClosingLowerField == Running /\ Head(agenda).op = "visitEndField" /\ level > 0

\* C13: visitEndField of the root field appends to the root token, after its
\* projection map, ORDER BY with the sort entries in their order, then SKIP
\* when offset is set (zero included), then the LIMIT part; without an options
\* argument it appends nothing, and visitEndField of a field below the root
\* appends no options clause
C13_OptionsClause ==
    /\ ClosingRootField =>
          \A node \in {Head(agenda).node} : \A r \in {VisitEndFieldResult(node)} :
              \A arg \in {FindArgument(node.arguments, "options")} :
                  /\ arg = <<>> => r.tokenBuffer = tokenBuffer
                  /\ (arg # <<>> /\ r.thrown = "") =>
                        /\ Len(r.tokenBuffer) = 1 /\ Len(tokenBuffer) = 1
                        /\ Last(tokenBuffer[1].value) = S("}")
                        /\ \E limitPart \in LimitParts(arg[1]) :
                              r.tokenBuffer[1].value
                              = tokenBuffer[1].value
                                \o ExpectedOrderBy(arg[1], BoundVariable(tokenBuffer[1].value))
                                \o ExpectedSkip(arg[1])
                                \o limitPart
    /\ ClosingLowerField =>
          \A r \in {VisitEndFieldResult(Head(agenda).node)} :
              \A k \in 1..Len(r.tokenBuffer) :
                  \A m \in 1..Len(r.tokenBuffer[k].value) :
                      r.tokenBuffer[k].value[m] \notin OptionKeywords

\* the root field is closed with two sort keys, an offset of zero and a
\* limit, and a field below the root with options of its own is closed
C13_Witness ==
    \/ /\ ClosingRootField
       /\ \E arg \in {FindArgument(Head(agenda).node.arguments, "options")} :
             /\ arg # <<>>
             /\ Len(SortKeys(arg[1])) = 2
             /\ ExpectedSkip(arg[1]) = <<S("SKIP"), S("0")>>
             /\ Occurs(VisitEndFieldResult(Head(agenda).node).tokenBuffer[1].value,
                       <<S(","), <<"baseAgreement", "0", ".", "id", " ", "ASC">>,
                         S("SKIP"), S("0"), S("LIMIT"), S("5")>>)
    \/ /\ ClosingLowerField
       /\ FindArgument(Head(agenda).node.arguments, "options") # <<>>
       /\ FindArgument(fieldNodePath[1].arguments, "options") # <<>>

\* the limit of the options of a field is given and is not zero
LimitNonZero(arg) ==
    \E limit \in {OptionNamed(arg, "limit")} :
        limit # <<>> /\ ~IsNullish(limit[1].value) /\ TextOf(limit[1].value) # "0"

\* C14: LIMIT is appended to the root token if and only if the limit of the
\* options is non-zero, whether the options are a literal of the document or
\* the value of a variable
C14_AsStated ==
    ClosingRootField =>
        \A node \in {Head(agenda).node} : \A r \in {VisitEndFieldResult(node)} :
            \A arg \in {FindArgument(node.arguments, "options")} :
                (arg # <<>> /\ r.thrown = "") =>
                    ((\E m \in 1..Len(r.tokenBuffer[1].value) :
                         r.tokenBuffer[1].value[m] = S("LIMIT"))
                     <=> LimitNonZero(arg[1]))

\* what the code does: with the options supplied through a variable LIMIT is
\* appended if and only if the limit is non-zero; with the options written as
\* a literal it is appended whenever a limit is written, zero included
C14_LimitOfVariableOptions ==
    ClosingRootField =>
        \A node \in {Head(agenda).node} : \A r \in {VisitEndFieldResult(node)} :
            \A arg \in {FindArgument(node.arguments, "options")} :
                (arg # <<>> /\ r.thrown = "") =>
                    ((\E m \in 1..Len(r.tokenBuffer[1].value) :
                         r.tokenBuffer[1].value[m] = S("LIMIT"))
                     <=> IF FromVariable(arg[1].value) THEN LimitNonZero(arg[1])
                         ELSE \E limit \in {OptionNamed(arg[1], "limit")} :
                                 limit # <<>> /\ ~IsNullish(limit[1].value))

(***************************************************************************)
(* Properties of the traversal                                             *)
(***************************************************************************)

\* the selections of the operation that walkSelectionSet keeps, and the
\* top-level expressions of the compiled buffer
RootSelections ==
    { i \in 1..Len(info.operation.selections) :
        /\ info.operation.selections[i].kind = "Field"
        /\ info.operation.selections[i].name = info.fieldName }
TopLevelExpressions == { k \in 1..Len(buffer) : buffer[k] = S("RETURN") }
WalkingRootSelection == Running /\ Head(agenda).op = "walk" /\ level = -1 /\ fieldPath = <<>>

\* C15: a selection walked at the root selection set is a Field named
\* info.fieldName, and the compiled output holds exactly one top-level
\* MATCH/UNWIND ... RETURN expression
C15_AsStated ==
    /\ (WalkingRootSelection /\ Head(agenda).node.kind # "OperationDefinition") =>
          /\ Head(agenda).node.kind = "Field"
          /\ Head(agenda).node.name = info.fieldName
    /\ (compiled >= 1 /\ error = "") => Cardinality(TopLevelExpressions) = 1

\* what the code does: one top-level expression for every selection of the
\* operation that is a Field named info.fieldName, whatever its alias
C15_OnePerNamedSelection ==
    /\ (WalkingRootSelection /\ Head(agenda).node.kind # "OperationDefinition") =>
          /\ Head(agenda).node.kind = "Field"
          /\ Head(agenda).node.name = info.fieldName
    /\ (compiled >= 1 /\ error = "") =>
          Cardinality(TopLevelExpressions) = Cardinality(RootSelections)

(***************************************************************************)
(* Properties of two compilers side by side                                *)
(***************************************************************************)

\* the two instances were given the same document, field name, fragments,
\* variables and compiler class (the schema is the one schema)
SameInput ==
    peer # NoPeer /\ peer.info = info /\ peer.variables = variables /\ peer.tenant = tenant

IsNode(v) == "kind" \in DOMAIN v
IsDate(v) ==
    /\ ~IsNode(v) /\ v.t = "object"
    /\ \A n \in {"year", "month", "day"} :
          \E i \in 1..Len(v.entries) : v.entries[i].name = <<n>> /\ v.entries[i].value.t = "number"
PartOf(v, n) == v.entries[CHOOSE i \in 1..Len(v.entries) : v.entries[i].name = <<n>>].value.v
TwoDigits(n) == IF n \in {"0", "1", "2", "3", "4", "5", "6", "7", "8", "9"} THEN <<"0", n>> ELSE <<n>>
DateText(v) ==
    <<PartOf(v, "year"), "-">> \o TwoDigits(PartOf(v, "month")) \o <<"-">> \o TwoDigits(PartOf(v, "day"))
IsRawScalar(v) ==
    IF IsNode(v) THEN v.kind \in {"BooleanValue", "IntValue", "FloatValue"}
    ELSE v.t \in {"number", "boolean"}
IsQuotedScalar(v) ==
    IF IsNode(v) THEN v.kind \in {"StringValue", "EnumValue"} ELSE v.t = "string"
IsVariable(v) == IsNode(v) /\ v.kind = "Variable"
IsScalarValue(v) == IsRawScalar(v) \/ IsQuotedScalar(v) \/ IsVariable(v) \/ IsDate(v)
IsListValue(v) ==
    /\ IF IsNode(v) THEN v.kind = "ListValue" ELSE v.t = "array"
    /\ \A item \in SeqToSet(ItemsOf(v)) : IsScalarValue(item)
SerializedScalar(v, quoteDates) ==
    IF IsRawScalar(v) THEN <<TextOf(v)>>
    ELSE IF IsQuotedScalar(v) THEN <<"'", TextOf(v), "'">>
    ELSE IF IsVariable(v) THEN <<"$", v.name>>
    ELSE IF quoteDates THEN <<"'">> \o DateText(v) \o <<"'">>
    ELSE DateText(v)
Serialized(v, quoteDates) ==
    IF IsListValue(v)
    THEN ValArray(<<S("[")>>
                  \o Intersperse([i \in 1..Len(ItemsOf(v)) |->
                                     SerializedScalar(ItemsOf(v)[i], quoteDates)], S(","))
                  \o <<S("]")>>)
    ELSE ValScalar(SerializedScalar(v, quoteDates))

\* the entries of the root where input that are leaves with a value the rules
\* cover, and the Condition built for such an entry
ValueEntries ==
    { e \in RootEntries :
        /\ IsFieldKey(e.name)
        /\ HasField(fieldPath[1].type, e.name[1])
        /\ ~isObjectType(schema[fieldPath[1].type][e.name[1]].type)
        /\ IsScalarValue(e.value) \/ IsListValue(e.value) }
ConditionOf(e, trees) ==
    { c \in SeqToSet(trees) : c.property = e.name[1] /\ c.operator = Tail(e.name) }
RootAnalyzed == RootVisited /\ ~RootHasCypher /\ level = 0 /\ error = ""

\* C17: the value of the Condition of a leaf is the serialization of the
\* value of its where entry: raw, single-quoted, $name, a list of such items,
\* and a date-shaped runtime object as the single-quoted string yyyy-MM-dd
C17_AsStated ==
    RootAnalyzed =>
        \A trees \in {RootTrees} :
            \A e \in ValueEntries :
                \E c \in ConditionOf(e, trees) : c.value = Serialized(e.value, TRUE)

\* what the code does: the same, with the date yyyy-MM-dd not in quotes
C17_DatesUnquoted ==
    RootAnalyzed =>
        \A trees \in {RootTrees} :
            \A e \in ValueEntries :
                \E c \in ConditionOf(e, trees) : c.value = Serialized(e.value, FALSE)

(***************************************************************************)
(* Properties of the order of the callbacks                                *)
(***************************************************************************)

\* the callbacks that open a bracket and those that close one; the number of
\* brackets open after the k-th callback
Opening == {"visitField", "visitInlineFragment"}
Closing == {"visitEndField", "visitEndInlineFragment"}
OpenAfter(k) ==
    Cardinality({ i \in 1..k : calls[i].op \in Opening })
    - Cardinality({ i \in 1..k : calls[i].op \in Closing })
\* the callbacks that close the bracket opened by the i-th: the first one
\* after which no more brackets are open than before the i-th
ClosersOf(i) ==
    { j \in (i + 1)..Len(calls) :
        /\ calls[j].op \in Closing
        /\ OpenAfter(j) = OpenAfter(i) - 1
        /\ \A m \in (i + 1)..(j - 1) : OpenAfter(m) >= OpenAfter(i) }
SameNode(i, j) ==
    calls[i].kind = calls[j].kind /\ calls[i].name = calls[j].name /\ calls[i].alias = calls[j].alias
EndOf(op) == IF op = "visitField" THEN "visitEndField" ELSE "visitEndInlineFragment"

\* every visitField(f) has its visitEndField(f) and every visitInlineFragment
\* its visitEndInlineFragment, after the callbacks of the subtree and right
\* after the visitEndSelectionSet of the node's own selection set; a handled
\* field is closed at once; no closing callback stands alone; a fragment
\* spread makes no callback of its own
ProperlyBracketed ==
    /\ \A k \in 1..Len(calls) : OpenAfter(k) >= 0
    /\ OpenAfter(Len(calls)) = 0
    /\ \A i \in 1..Len(calls) :
          calls[i].op \in Opening =>
              /\ Cardinality(ClosersOf(i)) = 1
              /\ \A j \in ClosersOf(i) :
                    /\ calls[j].op = EndOf(calls[i].op)
                    /\ SameNode(i, j)
                    /\ calls[i].handled => j = i + 1
                    /\ (calls[i].hasSelectionSet /\ ~calls[i].handled) =>
                          /\ calls[j - 1].op = "visitEndSelectionSet"
                          /\ SameNode(i, j - 1)
                    /\ ~calls[i].hasSelectionSet => j = i + 1
    /\ \A k \in 1..Len(calls) :
          /\ calls[k].op \in {"visitInlineFragment", "visitEndInlineFragment"}
                => calls[k].kind = "InlineFragment"
          /\ calls[k].kind \in {"FragmentDefinition", "FragmentSpread"}
                => calls[k].op = "visitEndSelectionSet" /\ calls[k].kind = "FragmentDefinition"
WalkEnded == agenda = <<>> /\ calls # <<>>

ClosingSelectionSet == Running /\ Head(agenda).op = "visitEndSelectionSet"
TokensWhere(keep(_)) ==
    LET idx == { k \in 1..Len(tokenBuffer) : keep(tokenBuffer[k]) }
        RECURSIVE InOrder(_)
        InOrder(set) ==
            IF set = {} THEN <<>>
            ELSE LET k == CHOOSE m \in set : \A n \in set : m <= n
                 IN  <<tokenBuffer[k]>> \o InOrder(set \ {k})
    IN  InOrder(idx)
IsDeeper(token) == token.level > level
IsNotDeeper(token) == token.level <= level
CommaSeparated(tokens) ==
    Flat([k \in 1..Len(tokens) |->
            IF k = 1 THEN tokens[k].value ELSE <<S(",")>> \o tokens[k].value])

\* C19: when the selection set of a field closes at level >= 0, the tokens of
\* a level greater than the field's are removed from the token buffer and
\* stand, in their order and separated by commas, inside one { ... } appended
\* to the field's own token, the last of the tokens that remain; the other
\* tokens stay as they are; when the selection set of a fragment definition
\* or of an inline fragment closes, or one at level -1, the token buffer and
\* the buffer stay as they are
C19_SelectionSetFolded ==
    ClosingSelectionSet =>
        \A node \in {Head(agenda).node} : \A r \in {VisitEndSelectionSetResult(node)} :
            IF node.kind = "Field" /\ level >= 0
            THEN \A removed \in {TokensWhere(IsDeeper)} : \A kept \in {TokensWhere(IsNotDeeper)} :
                    /\ kept # <<>>
                    /\ Last(kept).level = level
                    /\ Len(r.tokenBuffer) = Len(kept)
                    /\ \A k \in 1..(Len(kept) - 1) : r.tokenBuffer[k] = kept[k]
                    /\ Last(r.tokenBuffer).level = level
                    /\ Last(r.tokenBuffer).value
                       = Last(kept).value \o <<S("{")>> \o CommaSeparated(removed) \o <<S("}")>>
                    /\ r.buffer = buffer
            ELSE /\ node.kind \in {"FragmentDefinition", "InlineFragment"} \/ level = -1
                 /\ r.tokenBuffer = tokenBuffer
                 /\ r.buffer = buffer

\* the selection set of a field closes with tokens of fields selected through
\* a fragment among those below it, after the selection set of the fragment
\* has closed
C19_Witness ==
    /\ ClosingSelectionSet
    /\ Head(agenda).node.kind = "Field" /\ level >= 0
    /\ Len(TokensWhere(IsDeeper)) >= 2
    /\ \E k \in 1..Len(calls) :
          calls[k].op = "visitEndSelectionSet"
          /\ calls[k].kind \in {"FragmentDefinition", "InlineFragment"}

(***************************************************************************)
(* Properties of the entries of scalar and enum fields                     *)
(***************************************************************************)

\* visitField has just returned for a field of a scalar or enum type below
\* the root that is not __typename; its entry is the token on top
ScalarFieldEmitted ==
    /\ CurrentFieldEmitted
    /\ level >= 1
    /\ Running /\ Head(agenda).op = "visitEndField"
    /\ Head(agenda).node = Last(fieldNodePath)
    /\ ~isObjectType(Last(fieldPath).type)
ScalarNode == Last(fieldNodePath)
ScalarEntry == Last(tokenBuffer).value
ScalarAlias == IF ScalarNode.alias # "" THEN ScalarNode.alias ELSE ScalarNode.name
DeclaredField == schema[typePath[Len(typePath) - 1]][ScalarNode.name]
CypherStatements ==
    { DeclaredField.directives[k].statement :
        k \in { j \in 1..Len(DeclaredField.directives) : DeclaredField.directives[j].name = "cypher" } }

\* alias: apoc.cypher.runFirstColumn("stmt", { this: <var>, cypherParams:
\* $cypherParams }) and [0] for a result that is not a list
IsCypherEntry(entry, stmt) ==
    /\ Len(entry) = (IF DeclaredField.isList THEN 15 ELSE 16)
    /\ SubSeq(entry, 1, 8)
       = <<S(ScalarAlias), S(":"), S("apoc.cypher.runFirstColumn("), <<"\"", stmt, "\"">>,
           S(","), S("{"), S("this"), S(":")>>
    /\ entry[9][1] = toCamelCase(typePath[Len(typePath) - 1])
    /\ (OpenInlineFragments = 0 /\ EnclosingIndex > 0)
       => entry[9] = BoundVariable(OwnToken(EnclosingIndex).value)
    /\ SubSeq(entry, 10, 15)
       = <<S(","), S("cypherParams"), S(":"), S("$cypherParams"), S("}"), S(")")>>
    /\ ~DeclaredField.isList => entry[16] = S("[0]")

C20_AsStated ==
    ScalarFieldEmitted =>
        IF CypherStatements = {}
        THEN ScalarEntry = <<S(ScalarAlias), S(":"), <<".", ScalarNode.name>> >>
        ELSE \E stmt \in CypherStatements : IsCypherEntry(ScalarEntry, stmt)

\* C20: for a scalar or enum field below the root without a cypher directive
\* the emitted entry is .fieldName alone, with or without an alias; with a
\* cypher directive it is alias: apoc.cypher.runFirstColumn("stmt", { this:
\* <closestNodeVar>, cypherParams: $cypherParams }), alias being the alias
\* when one is given and the name otherwise, followed by [0] if and only if
\* the schema declares a result that is not a list
C20_ScalarEntry ==
    ScalarFieldEmitted =>
        IF CypherStatements = {}
        THEN ScalarEntry = << <<".", ScalarNode.name>> >>
        ELSE \E stmt \in CypherStatements : IsCypherEntry(ScalarEntry, stmt)

\* an aliased scalar field without a cypher directive has been emitted, or
\* an aliased one with a cypher directive and a list result, or one with a
\* cypher directive and a single result
C20_Witness ==
    /\ ScalarFieldEmitted
    /\ \/ ScalarNode.alias # "" /\ CypherStatements = {}
       \/ ScalarNode.alias # "" /\ CypherStatements # {} /\ DeclaredField.isList
       \/ CypherStatements # {} /\ ~DeclaredField.isList

(***************************************************************************)
(* Properties of the end of the walk and of compile                        *)
(***************************************************************************)

\* an upper bound of the steps walk(node) still takes: one for each callback
\* and each expansion, the fragments followed through their spreads
RECURSIVE WalkCost(_, _)
RECURSIVE SelectionsCost(_, _, _)
SelectionsCost(selections, n, fragments) ==
    IF n = 0 THEN 0
    ELSE WalkCost(selections[n], fragments) + SelectionsCost(selections, n - 1, fragments)
SelectionSetCost(node, fragments) ==
    IF ~node.hasSelectionSet THEN 0
    ELSE 1 + SelectionsCost(node.selections, Len(node.selections), fragments)
WalkCost(node, fragments) ==
    IF node.kind = "FragmentSpread"
    THEN IF node.name \in DOMAIN fragments
         THEN 1 + SelectionSetCost(fragments[node.name], fragments) ELSE 1
    ELSE IF node.kind = "OperationDefinition" THEN 1 + SelectionSetCost(node, fragments)
    ELSE 2 + SelectionSetCost(node, fragments)
RECURSIVE RemainingSteps(_, _, _)
RemainingSteps(steps, n, fragments) ==
    IF n = 0 THEN 0
    ELSE (IF steps[n].op = "walk" THEN WalkCost(steps[n].node, fragments) ELSE 1)
         + RemainingSteps(steps, n - 1, fragments)

\* the walk has returned (it has not thrown)
WalkReturned == agenda = <<>> /\ error = ""

\* the strings of the tokens in their order, and strings joined by one space
RECURSIVE TokenStrings(_)
TokenStrings(tokens) ==
    IF tokens = <<>> THEN <<>> ELSE Head(tokens).value \o TokenStrings(Tail(tokens))
RECURSIVE SpaceJoined(_)
SpaceJoined(strings) ==
    IF strings = <<>> THEN <<>>
    ELSE IF Len(strings) = 1 THEN strings[1]
    ELSE strings[1] \o <<" ">> \o SpaceJoined(Tail(strings))

\* C21: the walk of a document whose fragment spreads are acyclic ends: each
\* of its steps lowers a bound of the steps that remain, and under the
\* synchronous run of the callbacks the agenda empties; when the walk has
\* returned, level is -1, fieldPath, fieldNodePath and
\* listComprehensionFlagPath are empty, typePath is [Query] and every token
\* of the token buffer is of level 0; compile() then empties the token buffer
\* and returns the strings of the buffer and of the tokens joined by single
\* spaces, and a second compile() returns the same string
C21_WalkEndsBalanced ==
    /\ [][WalkStep => RemainingSteps(agenda', Len(agenda'), info.fragments) < RemainingSteps(agenda, Len(agenda), info.fragments)]_vars
    /\ <>(agenda = <<>>)
    /\ [](WalkReturned =>
            /\ level = -1
            /\ fieldPath = <<>> /\ fieldNodePath = <<>> /\ listComprehensionFlagPath = <<>>
            /\ typePath = <<"Query">>
            /\ \A k \in 1..Len(tokenBuffer) : tokenBuffer[k].level = 0
            /\ compiled >= 1 => tokenBuffer = <<>>)
    /\ [][Compile =>
            /\ tokenBuffer' = <<>>
            /\ output' = SpaceJoined(buffer \o TokenStrings(tokenBuffer))
            /\ compiled = 0 => buffer = <<>>
            /\ compiled >= 1 => output' = output]_vars

\* compile() has been called twice after a walk through a fragment spread or
\* an inline fragment that made one field a map of two or more entries
C21_Witness ==
    /\ WalkReturned
    /\ compiled >= 2
    /\ Len(output) > 10
    /\ \E k \in 1..Len(calls) :
          calls[k].op = "visitEndSelectionSet"
          /\ calls[k].kind \in {"FragmentDefinition", "InlineFragment"}

(***************************************************************************)
(* Properties of the tenant predicate in WHERE                             *)
(***************************************************************************)

\* the strings of the WHERE clause of MATCH, and how deep in parentheses,
\* braces and brackets the string at k stands
RootWhereStrings ==
    IF \E k \in 1..Len(RootHead) : RootHead[k] = S("WHERE")
    THEN SubSeq(RootHead, IndexOf(RootHead, S("WHERE")) + 1, Len(RootHead))
    ELSE <<>>
RECURSIVE DepthAt(_, _)
DepthAt(strings, k) ==
    IF k <= 1 THEN 0
    ELSE DepthAt(strings, k - 1)
         + (IF strings[k - 1] \in {S("("), S("{"), S("[")} THEN 1
            ELSE IF strings[k - 1] \in {S(")"), S("}"), S("]")} THEN -1 ELSE 0)

\* $cypherParams.tenantId IN <root variable>.tenantIds stands at k, k + 1 and
\* k + 2 as an operand of the connectives around it
TenantIdsPredicateAt(strings, k) ==
    /\ k + 2 <= Len(strings)
    /\ MentionsTenant(<<strings[k]>>)
    /\ strings[k + 1] = S("IN")
    /\ strings[k + 2] = <<toCamelCase(fieldPath[1].type), "0", ".", "tenantIds">>
    /\ k = 1 \/ strings[k - 1] \in {S("AND"), S("OR")}
    /\ k + 2 = Len(strings) \/ strings[k + 3] \in {S("AND"), S("OR")}

\* under the precedence of Cypher (AND binds tighter than OR) the clause is
\* the OR of the runs between the ORs outside every parenthesis, and each run
\* is the AND of its operands: the clause implies the tenant predicate when
\* the predicate is an operand of every run
TenantIsTopLevelConjunct(strings) ==
    LET n == Len(strings)
        orAt == { k \in 1..n : strings[k] = S("OR") /\ DepthAt(strings, k) = 0 }
        starts == {1} \cup { k + 1 : k \in orAt }
        RunEnd(start) == IF \E k \in orAt : k > start
                        THEN (CHOOSE k \in orAt : k > start /\ \A m \in orAt : m > start => k <= m) - 1
                        ELSE n
    IN  /\ n > 0
        /\ \A start \in starts :
              \E k \in start..RunEnd(start) :
                  DepthAt(strings, k) = 0 /\ TenantIdsPredicateAt(strings, k)

\* the root field is compiled by the tenant compiler and its type holds
\* tenantIds
TenantIdsRootEmitted ==
    /\ tenant
    /\ RootMatchEmitted
    /\ HasField(fieldPath[1].type, "tenantIds")
    /\ ~HasField(fieldPath[1].type, "tenantId")

\* the where input of the root field holds an OR both of whose operands are
\* relationship filters
RootOrOfRelationshipFilters ==
    \E i \in 1..Len(RootTrees) :
        /\ RootTrees[i].isOr
        /\ Len(RootTrees[i].nested) >= 2
        /\ \A g \in 1..Len(RootTrees[i].nested) : isRelationshipCondition(RootTrees[i].nested[g])

\* C22 as stated: with the tenant compiler, for a root field whose type uses
\* tenantIds, $cypherParams.tenantId IN <var>.tenantIds is a conjunct of the
\* WHERE clause under the precedence of Cypher, whatever the where input
C22_AsStated == TenantIdsRootEmitted => TenantIsTopLevelConjunct(RootWhereStrings)

\* the same, for the where inputs that hold no OR of relationship filters
C22_ConjunctWithoutRelationshipOr ==
    (TenantIdsRootEmitted /\ ~RootOrOfRelationshipFilters)
        => TenantIsTopLevelConjunct(RootWhereStrings)

(***************************************************************************)
(* Properties of the emission of every leaf                                *)
(***************************************************************************)

\* the leaves on scalar fields among the condition trees of the root field,
\* and how often one is emitted: as an entry of the property map of the node
\* pattern, and as a predicate of the WHERE clause outside every parenthesis
\* (inside them stand the leaves of the OR operands and of the nested filters)
ScopeLeaves(trees) ==
    { c \in SeqToSet(trees) :
        /\ ~c.isOr /\ ~c.isGroup /\ c.nested = <<>> /\ c.property # ""
        /\ c.value.kind \in {"scalar", "array"} }
LeafPredicate(c) ==
    TableExpression(IF c.operator = <<>> THEN <<"EQUALS">> ELSE c.operator,
                    <<toCamelCase(c.parentType), "0", ".", c.property>>, ValueStrings(c.value))
PredicateCount(strings, c) ==
    Cardinality({ k \in 1..(Len(strings) - Len(LeafPredicate(c)) + 1) :
                    /\ DepthAt(strings, k) = 0
                    /\ SubSeq(strings, k, k + Len(LeafPredicate(c)) - 1) = LeafPredicate(c) })
MapCount(strings, c) ==
    IF c.value.kind = "scalar" /\ c.operator = <<>> /\ InNodeMap(strings, c)
    THEN Cardinality({ j \in 1..(Len(strings[6]) - 1 - Len(c.value.items[1])) :
                         SubSeq(strings[6], j, j + 1 + Len(c.value.items[1]))
                         = <<c.property, ": ">> \o c.value.items[1] })
    ELSE 0
EmittedCount(head, where, c) == MapCount(head, c) + PredicateCount(where, c)

\* how often the where input gives the leaf (once, unless AND repeats it)
TimesGiven(trees, c) == Cardinality({ i \in 1..Len(trees) : trees[i] = c })

\* C23 as stated: every leaf on a scalar field among the condition trees of
\* the matched node is emitted exactly once, in the property map of the node
\* pattern or as a predicate of WHERE, an equality leaf whose value is a list
\* included
C23_AsStated ==
    RootMatchEmitted =>
        \A trees \in {RootTrees} : \A head \in {RootHead} : \A where \in {RootWhereStrings} :
            \A c \in ScopeLeaves(trees) : EmittedCount(head, where, c) = TimesGiven(trees, c)

\* the same for the leaves that carry an operator or a value that is not a
\* list; an equality leaf whose value is a list is emitted nowhere
C23_OnceUnlessListEquality ==
    RootMatchEmitted =>
        \A trees \in {RootTrees} : \A head \in {RootHead} : \A where \in {RootWhereStrings} :
            \A c \in ScopeLeaves(trees) :
                EmittedCount(head, where, c)
                = (IF c.operator = <<>> /\ c.value.kind = "array" THEN 0 ELSE TimesGiven(trees, c))

(***************************************************************************)
(* Properties of the OR groups                                             *)
(***************************************************************************)

\* the ORs among the condition trees of the root field whose operands hold
\* property conditions only, one or more each
IsPropertyLeaf(c) == ~c.isOr /\ ~c.isGroup /\ c.nested = <<>> /\ c.property # ""
PropertyOrs(trees) ==
    { t \in SeqToSet(trees) :
        /\ t.isOr
        /\ t.nested # <<>>
        /\ \A g \in 1..Len(t.nested) :
              /\ t.nested[g].nested # <<>>
              /\ \A k \in 1..Len(t.nested[g].nested) : IsPropertyLeaf(t.nested[g].nested[k]) }

\* ( G1 OR G2 OR ... ), each Gi the predicates of operand i joined by AND
OperandPredicates(group) ==
    Flat([k \in 1..(2 * Len(group.nested) - 1) |->
            IF k % 2 = 1 THEN LeafPredicate(group.nested[(k + 1) \div 2]) ELSE <<S("AND")>>])
OrGroupExpected(t) ==
    <<S("(")>>
    \o Flat([g \in 1..(2 * Len(t.nested) - 1) |->
               IF g % 2 = 1 THEN OperandPredicates(t.nested[(g + 1) \div 2]) ELSE <<S("OR")>>])
    \o <<S(")")>>
IsConnective(str) == str \in {S("AND"), S("OR")}
AdjacentConnectives(strings) ==
    \E k \in 1..(Len(strings) - 1) : IsConnective(strings[k]) /\ IsConnective(strings[k + 1])

\* C24 as stated: an OR whose operands hold one or more property conditions
\* each is emitted as ( G1 OR G2 OR ... ), Gi the AND of the predicates of
\* operand i, and no two connectives are adjacent in the WHERE clause
C24_AsStated ==
    RootMatchEmitted =>
        \A trees \in {RootTrees} : \A where \in {RootWhereStrings} :
            PropertyOrs(trees) # {} =>
                /\ \A t \in PropertyOrs(trees) : Occurs(where, OrGroupExpected(t))
                /\ ~AdjacentConnectives(where)

\* the same for the ORs each of whose operands holds one property condition;
\* an operand of two or more conditions puts OR AND OR between them
C24_SingleConditionOperands ==
    RootMatchEmitted =>
        \A trees \in {RootTrees} : \A where \in {RootWhereStrings} :
            \A t \in PropertyOrs(trees) :
                IF \A g \in 1..Len(t.nested) : Len(t.nested[g].nested) = 1
                THEN Occurs(where, OrGroupExpected(t))
                ELSE AdjacentConnectives(where)

(***************************************************************************)
(* Properties of the variables of the slow existential                     *)
(***************************************************************************)

\* exists { pattern WHERE preds } among the strings: where it starts, its
\* closing brace and its WHERE
SlowExistentials(strings) ==
    { k \in 1..(Len(strings) - 1) : strings[k] = S("exists") /\ strings[k + 1] = S("{") }
ClosingBrace(strings, k) ==
    CHOOSE m \in (k + 2)..Len(strings) :
        /\ strings[m] = S("}") /\ DepthAt(strings, m) = DepthAt(strings, k + 1) + 1
        /\ \A j \in (k + 2)..(m - 1) :
              ~(strings[j] = S("}") /\ DepthAt(strings, j) = DepthAt(strings, k + 1) + 1)
InnerWhere(strings, k) ==
    CHOOSE m \in (k + 2)..Len(strings) :
        /\ strings[m] = S("WHERE")
        /\ \A j \in (k + 2)..(m - 1) : strings[j] # S("WHERE")

\* the variables the pattern binds: the names that open a node or a
\* relationship pattern
PatternVariables(strings, k) ==
    { strings[m] : m \in { j \in (k + 2)..(InnerWhere(strings, k) - 1) :
                            /\ strings[j - 1] \in {S("("), S("[")}
                            /\ strings[j][1] \notin {":", "{"} } }

\* the variables the predicates read: what stands before the dot of an
\* accessor
DotAt(str) == CHOOSE j \in 1..Len(str) : str[j] = "." /\ \A i \in 1..(j - 1) : str[i] # "."
IsAccessor(str) == \E j \in 2..Len(str) : str[j] = "."
PredicateVariables(strings, k) ==
    { SubSeq(strings[m], 1, DotAt(strings[m]) - 1) :
        m \in { j \in (InnerWhere(strings, k) + 1)..(ClosingBrace(strings, k) - 1) :
                  IsAccessor(strings[j]) } }

\* C25 as stated: in every slow existential of the WHERE clause of MATCH each
\* accessor of the predicates names a variable that the pattern of the same
\* existential binds
C25_AsStated ==
    RootMatchEmitted =>
        \A where \in {RootWhereStrings} :
            \A k \in SlowExistentials(where) :
                PredicateVariables(where, k) \subseteq PatternVariables(where, k)

\* a filter on the node of a Connection field stands among the trees
NodeFilterOfConnection(trees) ==
    \E i \in 1..Len(trees) :
        /\ ConnectionSuffixRegex(trees[i].property)
        /\ \E j \in 1..Len(trees[i].nested) : ~trees[i].nested[j].isRelationship

\* the same for the where inputs that hold no OR and no filter on the node
\* of a Connection field: paths through plain relationship fields and
\* through the edge of a Connection field
C25_BoundOnPlainPaths ==
    (RootMatchEmitted /\ ~HasOr(RootTrees) /\ ~NodeFilterOfConnection(RootTrees)) =>
        \A where \in {RootWhereStrings} :
            \A k \in SlowExistentials(where) :
                PredicateVariables(where, k) \subseteq PatternVariables(where, k)

(***************************************************************************)
(* Properties of the variables of the relationship comprehension           *)
(***************************************************************************)

\* visitField has just pushed a relationship-based list comprehension to the
\* token of the current field: alias : [ (source) -[ r :T ]-> ( n : T ) WHERE
\* preds | result
ComprehensionEmitted ==
    /\ CurrentFieldEmitted
    /\ level >= 1
    /\ IsRelationshipComprehension(Last(tokenBuffer).value)
    /\ Last(tokenBuffer).value[Len(Last(tokenBuffer).value) - 1] = S("|")
Comprehension == Last(tokenBuffer).value

\* where the pattern of the comprehension ends: its WHERE, or its bar
PatternEnd(strings) ==
    IF \E k \in 1..Len(strings) : strings[k] = S("WHERE")
    THEN IndexOf(strings, S("WHERE")) ELSE Len(strings) - 1

\* the variables the pattern declares: the names that open its relationship
\* pattern and its node pattern
ComprehensionVariables(strings) ==
    { strings[j] : j \in { m \in 6..(PatternEnd(strings) - 1) :
                             /\ strings[m - 1] \in {S("("), S("[")}
                             /\ strings[m][1] \notin {":", "{"} } }

\* the positions of the WHERE clause that belong to no existential of it
InsideExistential(strings, j) ==
    \E k \in SlowExistentials(strings) : k < j /\ j < ClosingBrace(strings, k)
OwnPredicates(strings) ==
    { j \in (PatternEnd(strings) + 1)..(Len(strings) - 2) :
        IsAccessor(strings[j]) /\ ~InsideExistential(strings, j) }
AccessorVariables(strings) ==
    { SubSeq(strings[j], 1, DotAt(strings[j]) - 1) : j \in OwnPredicates(strings) }

\* C26 as stated: in every relationship-based list comprehension each
\* accessor of its WHERE clause names a variable its own pattern declares,
\* also when the comprehension is the edges of a Connection
C26_AsStated ==
    ComprehensionEmitted =>
        \A strings \in {Comprehension} :
            AccessorVariables(strings) \subseteq ComprehensionVariables(strings)

\* the same for the accessors of node predicates: they name the node variable
\* <camelTarget><level> of the pattern, and the accessors of the relationship
\* in the edges of a Connection are the only ones that name no variable of
\* the pattern
C26_NodePredicatesBound ==
    ComprehensionEmitted =>
        \A strings \in {Comprehension} :
            \A v \in AccessorVariables(strings) :
                \/ v \in ComprehensionVariables(strings)
                \/ (v[1] = "rel_" /\ Last(fieldPath).name = "edges")

(***************************************************************************)
(* Properties of the fields reached through an inline fragment             *)
(***************************************************************************)

\* typePath without the frames of inline fragments: Query and the type of
\* every field of the path
PlainTypePath == <<"Query">> \o [i \in 1..Len(fieldPath) |-> fieldPath[i].type]

\* what visitField pushes to the token of the current field when no frame of
\* an inline fragment is on typePath
WithoutFragment ==
    VisitFieldBody(Last(fieldNodePath), Last(fieldPath), PlainTypePath, fieldPath, fieldNodePath, level).strings

IsPrefix(a, b) == Len(a) <= Len(b) /\ SubSeq(b, 1, Len(a)) = a

\* the current field stands below the root inside an inline fragment
FieldInInlineFragment ==
    /\ CurrentFieldEmitted
    /\ level >= 1
    /\ OpenInlineFragments > 0

\* the current field carries a relationship or a cypher directive
HasDirective ==
    \/ getCypherDirective(PlainTypePath, fieldPath) # <<>>
    \/ (Last(fieldPath).name # "edges" /\ getRelationshipDirective(PlainTypePath, fieldPath) # <<>>)

\* C27 as stated: a field with a relationship or a cypher directive selected
\* inside an inline fragment reads the variable its closest enclosing field
\* bound, and a node or edges field reached through an inline fragment is
\* emitted as it is without the fragment
C27_AsStated ==
    /\ (FieldInInlineFragment /\ HasDirective /\ EnclosingIndex > 0)
       => SourceVariable(Last(tokenBuffer).value) = BoundVariable(OwnToken(EnclosingIndex).value)
    /\ (FieldInInlineFragment /\ Last(fieldPath).name \in {"node", "edges"})
       => IsPrefix(WithoutFragment, Last(tokenBuffer).value)

\* the same for the fields with a directive alone, and every field inside an
\* inline fragment that is neither node nor edges is emitted as it is without
\* the fragment
C27_DirectedFieldsInFragment ==
    /\ (FieldInInlineFragment /\ HasDirective /\ EnclosingIndex > 0)
       => SourceVariable(Last(tokenBuffer).value) = BoundVariable(OwnToken(EnclosingIndex).value)
    /\ (FieldInInlineFragment /\ Last(fieldPath).name \notin {"node", "edges"})
       => IsPrefix(WithoutFragment, Last(tokenBuffer).value)
====
